---- MODULE Spec2Model ----
(***************************************************************************)
(* gzh-cli-core: the reflective, depth-bounded LLM text formatter of       *)
(* package cli (llmFormatter) and the Output dispatcher that calls it.     *)
(*                                                                         *)
(* Text is a sequence of one-character strings.  A Go value is a record    *)
(* (see Base); a pointer or interface holds its pointee in elem, and a     *)
(* value of kind "cellref" stands for the value stored in a named cell, so *)
(* that shared and self-referential value graphs can be written down.      *)
(* The formatter is modelled as its call stack: one frame per active call  *)
(* of formatValue / formatStruct / formatSlice / formatMap, one action per *)
(* basic block of those functions.                                         *)
(***************************************************************************)
EXTENDS Integers, Sequences, FiniteSets, TLC

VARIABLES
    cells,    \* the addressable values the input refers to (cell id -> value)
    root,     \* the data handed to Output.Print
    stack,    \* the formatter's call stack, innermost call last
    ret,      \* the string returned by the call that returned last
    status,   \* where Output.printLLM is
    written,  \* the strings written to Output.writer, in order
    err,      \* the error Output.printLLM returned
    name,     \* the identifier handed to fieldNameToLabel
    label,    \* the label it returned
    o,        \* the Output object: its writer and its format
    token,    \* the format token last handed to Output.SetFormat
    encoded,  \* the calls made to the json, yaml and fmt encoders, in order
    earlier,  \* the strings format returned for root in its earlier calls
    loggers,  \* the SimpleLogger objects, in the order they were made
    outs,     \* for each io.Writer handed to a logger, the lines written to it
    procs,    \* for each goroutine, where it is in the logger call it makes
    loader,   \* the config Loader: its search list
    files,    \* the file system: what os.Stat and os.ReadFile find at a path
    returned, \* what the last call of a Loader method, of the errors package
              \* or of version.Info returned (for the Loader, dst included)
    args,     \* the arguments of that call, for the errors package and Info
    env,      \* the environment of the process, key by key
    test,     \* the running test: its cleanups, last registered last, where it
              \* stands, the testutil calls it made, and the environment it
              \* began with
    os,       \* os.Stdout and os.Stderr: the file each one is
    pipes,    \* the pipes os.Pipe made, by the stream they stand in for
    capture   \* the running call of Capture, CaptureStdout or CaptureStderr:
              \* its locals, where it stands, and what fn has yet to write

vars == <<cells, root, stack, ret, status, written, err, name, label,
          o, token, encoded, earlier, loggers, outs, procs,
          loader, files, returned, args, env, test, os, pipes, capture>>

\* the state outside the formatter and Output.printLLM
outVars == <<o, token, encoded>>
logVars == <<loggers, outs, procs>>
cfgVars == <<loader, files, returned>>
envVars == <<env, test>>
capVars == <<os, pipes, capture>>
farVars == <<logVars, cfgVars, args, envVars, capVars>>
extVars == <<outVars, earlier, farVars>>

\* the formatter's own state, and the state outside package logger
fmtVars == <<cells, root, stack, ret, status, written, err, name, label>>
notLog == <<fmtVars, outVars, earlier, cfgVars, args, envVars, capVars>>
notCfg == <<fmtVars, outVars, earlier, logVars, args, envVars, capVars>>
notPure == <<fmtVars, outVars, earlier, logVars, loader, files, envVars,
             capVars>>
notEnv == <<fmtVars, outVars, earlier, logVars, cfgVars, args, capVars>>
notCap == <<fmtVars, outVars, earlier, logVars, cfgVars, args, envVars>>

\* ------------------------------------------------------------------ text

NL == "\n"
SP == " "

LowerLetters == <<"a","b","c","d","e","f","g","h","i","j","k","l","m",
                  "n","o","p","q","r","s","t","u","v","w","x","y","z">>
UpperLetters == <<"A","B","C","D","E","F","G","H","I","J","K","L","M",
                  "N","O","P","Q","R","S","T","U","V","W","X","Y","Z">>
Digits == <<"0","1","2","3","4","5","6","7","8","9">>
HexDigits == <<"0","1","2","3","4","5","6","7","8","9","a","b","c","d","e","f">>

Range(s) == {s[k] : k \in DOMAIN s}

\* unicode.IsUpper, unicode.IsLower, unicode.ToUpper on the ASCII range
IsUpper(c) == c \in Range(UpperLetters)
IsLower(c) == c \in Range(LowerLetters)
ToUpper(c) ==
    IF IsLower(c)
    THEN UpperLetters[CHOOSE k \in DOMAIN LowerLetters : LowerLetters[k] = c]
    ELSE c

\* strings.Contains(s, sub)
Contains(s, sub) ==
    \E k \in 0..(Len(s) - Len(sub)) : SubSeq(s, k + 1, k + Len(sub)) = sub

\* strings.Repeat(c, n)
RECURSIVE Repeat(_, _)
Repeat(c, n) == IF n <= 0 THEN <<>> ELSE <<c>> \o Repeat(c, n - 1)

\* strings.Join(items, sep)
RECURSIVE Join(_, _)
Join(items, sep) ==
    IF items = <<>> THEN <<>>
    ELSE IF Len(items) = 1 THEN items[1]
    ELSE items[1] \o sep \o Join(Tail(items), sep)

\* fmt's %d of a non-negative integer, then of any integer
RECURSIVE NatDigits(_)
NatDigits(n) ==
    IF n < 10 THEN <<Digits[n + 1]>>
    ELSE NatDigits(n \div 10) \o <<Digits[(n % 10) + 1]>>
Itoa(n) == IF n < 0 THEN <<"-">> \o NatDigits(0 - n) ELSE NatDigits(n)

\* fmt's %x of a byte slice: two lower-case hex digits per byte
RECURSIVE Hex(_)
Hex(b) ==
    IF b = <<>> THEN <<>>
    ELSE <<HexDigits[(b[1] \div 16) + 1], HexDigits[(b[1] % 16) + 1]>> \o Hex(Tail(b))

\* ---------------------------------------------------------------- values

\* kind is the reflect.Kind of the value; special tells the types that
\* formatSpecialType asserts: "time" (time.Time, a struct), "duration"
\* (time.Duration, an int64), "bytes" ([]byte, a slice of uint8).
\* errmsg is <<m>> when the value's own type implements error with message
\* m, and <<>> when it does not.
Base ==
    [kind |-> "invalid", special |-> "none", elem |-> <<>>, fields |-> <<>>,
     elems |-> <<>>, entries |-> <<>>, str |-> <<>>, bool |-> FALSE,
     num |-> 0, errmsg |-> <<>>, cell |-> 0]

NilData == [Base EXCEPT !.kind = "nildata"]           \* data == nil
Str(s) == [Base EXCEPT !.kind = "string", !.str = s]
Bool(b) == [Base EXCEPT !.kind = "bool", !.bool = b]
IntV(n) == [Base EXCEPT !.kind = "int", !.num = n]
UintV(n) == [Base EXCEPT !.kind = "uint", !.num = n]
\* a float64 with its %g text; num is 0 exactly for the value 0
Float(n, text) == [Base EXCEPT !.kind = "float", !.num = n, !.str = text]
\* any other kind (chan, func, complex...) with its %v text
Other(text) == [Base EXCEPT !.kind = "other", !.str = text]
NilPtr == [Base EXCEPT !.kind = "ptr"]
Ptr(v) == [Base EXCEPT !.kind = "ptr", !.elem = <<v>>]
NilIface == [Base EXCEPT !.kind = "interface"]
Iface(v) == [Base EXCEPT !.kind = "interface", !.elem = <<v>>]
Struct(fs) == [Base EXCEPT !.kind = "struct", !.fields = fs]
Slice(es) == [Base EXCEPT !.kind = "slice", !.elems = es]
Map(es) == [Base EXCEPT !.kind = "map", !.entries = es]
CellRef(c) == [Base EXCEPT !.kind = "cellref", !.cell = c]
\* time.Time: num = 0 is the zero time; text is its RFC3339 rendering
Time(n, text) == [Base EXCEPT !.kind = "struct", !.special = "time", !.num = n, !.str = text]
\* time.Duration: text is d.String()
Duration(n, text) == [Base EXCEPT !.kind = "int", !.special = "duration", !.num = n, !.str = text]
Bytes(b) == [Base EXCEPT !.kind = "slice", !.special = "bytes", !.elems = b]
\* v, of a type whose method set holds Error() returning m
WithError(v, m) == [v EXCEPT !.errmsg = <<m>>]

F(n, v) == [name |-> n, val |-> v]
E(k, v) == [key |-> k, val |-> v]

Resolve(v) == IF v.kind = "cellref" THEN cells[v.cell] ELSE v

IsRef(v) == v.kind \in {"ptr", "interface"}     \* Kind() == Ptr || Interface
IsNil(v) == v.elem = <<>>                        \* v.IsNil()
Elem(v) == Resolve(v.elem[1])                    \* v.Elem()
NumField(v) == Len(v.fields)
Field(v, i) == Resolve(v.fields[i].val)          \* v.Field(i), i from 1
FieldName(v, i) == v.fields[i].name
IsExported(v, i) == IsUpper(v.fields[i].name[1]) \* t.Field(i).IsExported()
VLen(v) == IF v.kind = "map" THEN Len(v.entries) ELSE Len(v.elems)
Index(v, i) == Resolve(v.elems[i])               \* v.Index(i), i from 1
MapKey(v, e) == Resolve(v.entries[e].key)
MapValue(v, e) == Resolve(v.entries[e].val)

\* ------------------------------------------------- llmFormatter helpers

maxLLMDepth == 5
indentSize == 2

\* indent returns indentation string for given depth.
indent(depth) == Repeat(SP, depth * indentSize)

\* fieldNameToLabel looking at the next character only after an uppercase one
RECURSIVE fieldNameToLabelAfterUpper(_, _, _)
fieldNameToLabelAfterUpper(nm, i, result) ==
    IF i > Len(nm) THEN result
    ELSE LET r == nm[i]
             underscore ==
                 /\ i > 1
                 /\ IsUpper(r)
                 /\ \/ IsLower(nm[i - 1])
                    \/ /\ IsUpper(nm[i - 1])
                       /\ i + 1 <= Len(nm)
                       /\ IsLower(nm[i + 1])
         IN fieldNameToLabelAfterUpper(nm, i + 1,
                result \o (IF underscore THEN <<"_">> ELSE <<>>) \o <<ToUpper(r)>>)

\* fieldNameToLabel converts CamelCase to UPPER_CASE: the loop over the
\* identifier, result being the builder and i the (1-based) position.
RECURSIVE fieldNameToLabelFrom(_, _, _)
fieldNameToLabelFrom(nm, i, result) ==
    IF i > Len(nm) THEN result
    ELSE LET r == nm[i]
             underscore ==
                 /\ i > 1
                 /\ IsUpper(r)
                 /\ \/ IsLower(nm[i - 1])
                    \/ /\ ~IsLower(nm[i - 1])
                       /\ i + 1 <= Len(nm)
                       /\ IsLower(nm[i + 1])
         IN fieldNameToLabelFrom(nm, i + 1,
                result \o (IF underscore THEN <<"_">> ELSE <<>>) \o <<ToUpper(r)>>)

\* fieldNameToLabel without the look at the next character
RECURSIVE fieldNameToLabelNoLookahead(_)
fieldNameToLabelNoLookahead(nm) ==
    IF nm = <<>> THEN <<>>
    ELSE LET i == Len(nm)
             underscore == i > 1 /\ IsUpper(nm[i]) /\ IsLower(nm[i - 1])
         IN fieldNameToLabelNoLookahead(SubSeq(nm, 1, i - 1))
                \o (IF underscore THEN <<"_">> ELSE <<>>) \o <<ToUpper(nm[i])>>

fieldNameToLabel(nm) == fieldNameToLabelFrom(nm, 1, <<>>)

\* formatSpecialType cutting a byte slice at 32 bytes and more
formatSpecialTypeOffByOne(v) ==
    IF v.special = "time"
    THEN <<IF v.num = 0 THEN <<>> ELSE v.str, TRUE>>
    ELSE IF v.special = "duration"
    THEN <<IF v.num = 0 THEN <<>> ELSE v.str, TRUE>>
    ELSE IF v.special = "bytes"
    THEN IF Len(v.elems) = 0 THEN <<<<>>, TRUE>>
         ELSE IF Len(v.elems) >= 32
         THEN <<Hex(SubSeq(v.elems, 1, 32)) \o <<".", ".", ".", "(">>
                  \o Itoa(Len(v.elems)) \o <<" ", "b", "y", "t", "e", "s", ")">>, TRUE>>
         ELSE <<Hex(v.elems), TRUE>>
    ELSE IF v.errmsg # <<>>
    THEN <<v.errmsg[1], TRUE>>
    ELSE <<<<>>, FALSE>>

\* formatSpecialType on a dereferenced value: <<formatted, ok>>.
formatSpecialType(v) ==
    IF v.special = "time"
    THEN <<IF v.num = 0 THEN <<>> ELSE v.str, TRUE>>
    ELSE IF v.special = "duration"
    THEN <<IF v.num = 0 THEN <<>> ELSE v.str, TRUE>>
    ELSE IF v.special = "bytes"
    THEN IF Len(v.elems) = 0 THEN <<<<>>, TRUE>>
         ELSE IF Len(v.elems) > 32
         THEN <<Hex(SubSeq(v.elems, 1, 32)) \o <<".", ".", ".", "(">>
                  \o Itoa(Len(v.elems)) \o <<" ", "b", "y", "t", "e", "s", ")">>, TRUE>>
         ELSE <<Hex(v.elems), TRUE>>
    ELSE IF v.errmsg # <<>>
    THEN <<v.errmsg[1], TRUE>>
    ELSE <<<<>>, FALSE>>

\* formatScalar rendering false as text
formatScalarFalseText(v) ==
    CASE v.kind = "string" -> v.str
      [] v.kind = "bool" -> IF v.bool THEN <<"t", "r", "u", "e">> ELSE <<"f", "a", "l", "s", "e">>
      [] v.kind = "int" -> IF v.num = 0 THEN <<>> ELSE Itoa(v.num)
      [] v.kind = "uint" -> IF v.num = 0 THEN <<>> ELSE Itoa(v.num)
      [] v.kind = "float" -> IF v.num = 0 THEN <<>> ELSE v.str
      [] OTHER -> v.str

\* The scalar cases of formatValue's switch on v.Kind().
formatScalar(v) ==
    CASE v.kind = "string" -> v.str
      [] v.kind = "bool" -> IF v.bool THEN <<"t", "r", "u", "e">> ELSE <<>>
      [] v.kind = "int" -> IF v.num = 0 THEN <<>> ELSE Itoa(v.num)
      [] v.kind = "uint" -> IF v.num = 0 THEN <<>> ELSE Itoa(v.num)
      [] v.kind = "float" -> IF v.num = 0 THEN <<>> ELSE v.str
      [] OTHER -> v.str

\* The switch of shouldSkipField, on a dereferenced value.
shouldSkipKind(v) ==
    CASE v.kind = "string" -> v.str = <<>>
      [] v.kind = "bool" -> ~v.bool
      [] v.kind \in {"int", "uint", "float"} -> v.num = 0
      [] v.kind \in {"slice", "map"} -> VLen(v) = 0
      [] v.kind = "struct" -> IF v.special = "time" THEN v.num = 0 ELSE FALSE
      [] OTHER -> FALSE

\* The last line of isComplexType, on a dereferenced value.
isComplexKind(v) == v.kind \in {"struct", "slice", "map"}

\* structLine that puts every rendering on the label's line
structLineOneLine(depth, fieldLabel, formatted) ==
    indent(depth) \o fieldLabel \o <<":", SP>> \o formatted \o <<NL>>

\* What formatStruct appends for a field whose rendering is formatted.
structLine(depth, fieldLabel, formatted) ==
    IF Contains(formatted, <<NL>>)
    THEN indent(depth) \o fieldLabel \o <<":", NL>> \o formatted
    ELSE indent(depth) \o fieldLabel \o <<":", SP>> \o formatted \o <<NL>>

\* What formatSlice appends for element i (0-based) of a struct slice.
sliceItem(depth, i, formatted) ==
    indent(depth) \o <<"[">> \o Itoa(i) \o <<"]", NL>> \o formatted

\* What formatMap appends for an entry whose value renders as valueStr.
mapLine(depth, keyStr, valueStr) ==
    IF Contains(valueStr, <<NL>>)
    THEN indent(depth) \o keyStr \o <<":", NL>> \o valueStr
    ELSE indent(depth) \o keyStr \o <<":", SP>> \o valueStr \o <<NL>>

Ellipsis == <<".", ".", ".">>
Pipe == <<SP, "|", SP>>

\* ------------------------------------------------------- the call stack

\* The goroutine's stack is finite: a call nested deeper than MaxStack
\* frames ends the process with a stack overflow.
MaxStack == 12

\* A frame: the function running (fn), where it is (pc), its arguments
\* (v, depth) and its locals: the loop index i (1-based), the builder sb,
\* items (formatSlice), the value being dereferenced by shouldSkipField or
\* isComplexType (w), and formatMap's iterator (todo: the entries not yet
\* visited, cur: the entry at hand, keyStr).
NewFrame(fn, v, depth) ==
    [fn |-> fn, pc |-> "entry", v |-> v, depth |-> depth, i |-> 0, sb |-> <<>>,
     items |-> <<>>, w |-> Base, todo |-> {}, cur |-> 0, keyStr |-> <<>>]

Top == stack[Len(stack)]
At(fn, pc) == status = "running" /\ stack # <<>> /\ Top.fn = fn /\ Top.pc = pc

\* the innermost call returns s
Return(s) ==
    /\ stack' = SubSeq(stack, 1, Len(stack) - 1)
    /\ ret' = s
    /\ status' = IF Len(stack) = 1 THEN "return" ELSE status

\* the innermost call goes on as frame f
Goto(f) ==
    /\ stack' = [stack EXCEPT ![Len(stack)] = f]
    /\ UNCHANGED <<ret, status>>

\* the innermost call, going on as frame f, calls formatValue(v, depth)
Call(f, v, depth) ==
    IF Len(stack) >= MaxStack
    THEN status' = "overflow" /\ UNCHANGED <<stack, ret>>
    ELSE /\ stack' = Append([stack EXCEPT ![Len(stack)] = f],
                            NewFrame("formatValue", v, depth))
         /\ UNCHANGED <<ret, status>>

Untouched == UNCHANGED <<cells, root, written, err, name, label, extVars>>

\* ----------------------------------------------------------- formatValue

\* formatValue counting a dereference as a level
formatValueDerefDeeper ==
    /\ At("formatValue", "entry")
    /\ IsRef(Top.v)
    /\ IF IsNil(Top.v) THEN Return(<<>>)
       ELSE Goto([Top EXCEPT !.v = Elem(Top.v), !.depth = @ + 1])
    /\ Untouched

\* lines 97-102: one turn of the dereference loop
formatValueDeref ==
    /\ At("formatValue", "entry")
    /\ IsRef(Top.v)
    /\ IF IsNil(Top.v) THEN Return(<<>>)
       ELSE Goto([Top EXCEPT !.v = Elem(Top.v)])
    /\ Untouched

\* lines 104-140: special types first, then the switch on the kind
formatValueSwitch ==
    /\ At("formatValue", "entry")
    /\ ~IsRef(Top.v)
    /\ LET special == formatSpecialType(Top.v) IN
       IF special[2] THEN Return(special[1])
       ELSE CASE Top.v.kind = "struct" -> Goto([Top EXCEPT !.fn = "formatStruct"])
              [] Top.v.kind = "slice" -> Goto([Top EXCEPT !.fn = "formatSlice"])
              [] Top.v.kind = "map" -> Goto([Top EXCEPT !.fn = "formatMap"])
              [] OTHER -> Return(formatScalar(Top.v))
    /\ Untouched

formatValue == formatValueDeref \/ formatValueSwitch

\* ---------------------------------------------------------- formatStruct

\* formatStruct without its depth guard
formatStructEntryUnguarded ==
    /\ At("formatStruct", "entry")
    /\ Goto([Top EXCEPT !.pc = "loop", !.i = 1, !.sb = <<>>])
    /\ Untouched

\* formatStruct with a guard that cuts at maxLLMDepth already
formatStructEntryEarly ==
    /\ At("formatStruct", "entry")
    /\ IF Top.depth >= maxLLMDepth THEN Return(Ellipsis)
       ELSE Goto([Top EXCEPT !.pc = "loop", !.i = 1, !.sb = <<>>])
    /\ Untouched

\* lines 145-150
formatStructEntry ==
    /\ At("formatStruct", "entry")
    /\ IF Top.depth > maxLLMDepth THEN Return(Ellipsis)
       ELSE Goto([Top EXCEPT !.pc = "loop", !.i = 1, !.sb = <<>>])
    /\ Untouched

\* lines 152-163: the loop head, up to the call of shouldSkipField
formatStructLoop ==
    /\ At("formatStruct", "loop")
    /\ IF Top.i > NumField(Top.v) THEN Return(Top.sb)
       ELSE IF ~IsExported(Top.v, Top.i) THEN Goto([Top EXCEPT !.i = @ + 1])
       ELSE Goto([Top EXCEPT !.pc = "skip", !.w = Field(Top.v, Top.i)])
    /\ Untouched

\* lines 264-295 and 163-168: shouldSkipField, one turn of its dereference
\* loop or its switch; a field that is not skipped is formatted at depth+1
shouldSkipField ==
    /\ At("formatStruct", "skip")
    /\ IF IsRef(Top.w)
       THEN IF IsNil(Top.w) THEN Goto([Top EXCEPT !.pc = "loop", !.i = @ + 1])
            ELSE Goto([Top EXCEPT !.w = Elem(Top.w)])
       ELSE IF shouldSkipKind(Top.w) THEN Goto([Top EXCEPT !.pc = "loop", !.i = @ + 1])
            ELSE Call([Top EXCEPT !.pc = "field"], Field(Top.v, Top.i), Top.depth + 1)
    /\ Untouched

\* formatStruct writing the label of a field that renders empty
formatStructFieldLabelsEmpty ==
    /\ At("formatStruct", "field")
    /\ Goto([Top EXCEPT !.pc = "loop", !.i = @ + 1,
               !.sb = @ \o structLine(Top.depth,
                                      fieldNameToLabel(FieldName(Top.v, Top.i)), ret)])
    /\ Untouched

\* lines 168-182: the field's rendering has come back
formatStructField ==
    /\ At("formatStruct", "field")
    /\ LET formatted == ret
           fieldLabel == fieldNameToLabel(FieldName(Top.v, Top.i)) IN
       IF formatted = <<>> THEN Goto([Top EXCEPT !.pc = "loop", !.i = @ + 1])
       ELSE Goto([Top EXCEPT !.pc = "loop", !.i = @ + 1,
                             !.sb = @ \o structLine(Top.depth, fieldLabel, formatted)])
    /\ Untouched

\* formatStruct without the omission of empty fields
formatStructKeepsEmpty ==
    \/ formatStructEntry
    \/ formatStructLoop
    \/ /\ At("formatStruct", "skip")
       /\ Call([Top EXCEPT !.pc = "field"], Field(Top.v, Top.i), Top.depth + 1)
       /\ Untouched
    \/ /\ At("formatStruct", "field")
       /\ Goto([Top EXCEPT !.pc = "loop", !.i = @ + 1,
                  !.sb = @ \o structLine(Top.depth,
                                         fieldNameToLabel(FieldName(Top.v, Top.i)), ret)])
       /\ Untouched

formatStruct ==
    formatStructEntry \/ formatStructLoop \/ shouldSkipField \/ formatStructField

\* ----------------------------------------------------------- formatSlice

\* lines 189-200
formatSliceEntry ==
    /\ At("formatSlice", "entry")
    /\ IF VLen(Top.v) = 0 THEN Return(<<>>)
       ELSE IF Top.depth > maxLLMDepth THEN Return(Ellipsis)
       ELSE Goto([Top EXCEPT !.pc = "complex", !.w = Index(Top.v, 1)])
    /\ Untouched

\* lines 370-379 and 200: isComplexType(v.Index(0)), one turn of its loop
\* or its last line
isComplexType ==
    /\ At("formatSlice", "complex")
    /\ IF IsRef(Top.w)
       THEN IF IsNil(Top.w) THEN Goto([Top EXCEPT !.pc = "primitives", !.i = 1])
            ELSE Goto([Top EXCEPT !.w = Elem(Top.w)])
       ELSE IF isComplexKind(Top.w) THEN Goto([Top EXCEPT !.pc = "items", !.i = 1])
            ELSE Goto([Top EXCEPT !.pc = "primitives", !.i = 1])
    /\ Untouched

\* lines 201-211: the loop over a slice of primitives, and its result
formatSlicePrimitives ==
    /\ At("formatSlice", "primitives")
    /\ IF Top.i > VLen(Top.v)
       THEN Return(IF Len(Top.items) = 0 THEN <<>> ELSE Join(Top.items, Pipe))
       ELSE Call([Top EXCEPT !.pc = "primitive"], Index(Top.v, Top.i), Top.depth)
    /\ Untouched

\* formatSlice keeping the empty renderings among the items
formatSlicePrimitiveKeepsEmpty ==
    /\ At("formatSlice", "primitive")
    /\ Goto([Top EXCEPT !.pc = "primitives", !.i = @ + 1, !.items = Append(@, ret)])
    /\ Untouched

\* lines 203-206: an element's rendering has come back
formatSlicePrimitive ==
    /\ At("formatSlice", "primitive")
    /\ LET formatted == ret IN
       Goto([Top EXCEPT !.pc = "primitives", !.i = @ + 1,
                        !.items = IF formatted # <<>> THEN Append(@, formatted) ELSE @])
    /\ Untouched

\* formatSlice formatting the elements of a struct slice at its own depth
formatSliceItemsSameDepth ==
    /\ At("formatSlice", "items")
    /\ IF Top.i > VLen(Top.v) THEN Return(Top.sb)
       ELSE Call([Top EXCEPT !.pc = "item"], Index(Top.v, Top.i), Top.depth)
    /\ Untouched

\* lines 215-224: the loop over a slice of structs, and its result
formatSliceItems ==
    /\ At("formatSlice", "items")
    /\ IF Top.i > VLen(Top.v) THEN Return(Top.sb)
       ELSE Call([Top EXCEPT !.pc = "item"], Index(Top.v, Top.i), Top.depth + 1)
    /\ Untouched

\* lines 217-221: an element's rendering has come back
formatSliceItem ==
    /\ At("formatSlice", "item")
    /\ LET formatted == ret IN
       Goto([Top EXCEPT !.pc = "items", !.i = @ + 1,
                        !.sb = IF formatted # <<>>
                               THEN @ \o sliceItem(Top.depth, Top.i - 1, formatted)
                               ELSE @])
    /\ Untouched

formatSlice ==
    \/ formatSliceEntry \/ isComplexType
    \/ formatSlicePrimitives \/ formatSlicePrimitive
    \/ formatSliceItems \/ formatSliceItem

\* ------------------------------------------------------------- formatMap

\* formatMap without its depth guard
formatMapEntryUnguarded ==
    /\ At("formatMap", "entry")
    /\ IF VLen(Top.v) = 0 THEN Return(<<>>)
       ELSE Goto([Top EXCEPT !.pc = "range", !.todo = 1..VLen(Top.v)])
    /\ Untouched

\* lines 229-238
formatMapEntry ==
    /\ At("formatMap", "entry")
    /\ IF VLen(Top.v) = 0 THEN Return(<<>>)
       ELSE IF Top.depth > maxLLMDepth THEN Return(Ellipsis)
       ELSE Goto([Top EXCEPT !.pc = "range", !.todo = 1..VLen(Top.v)])
    /\ Untouched

\* lines 240-244: iter.Next() yields the entries in an order the runtime
\* chooses; the key is formatted at the map's own depth
formatMapNext ==
    /\ At("formatMap", "range")
    /\ IF Top.todo = {} THEN Return(Top.sb)
       ELSE \E e \in Top.todo :
              Call([Top EXCEPT !.pc = "key", !.cur = e, !.todo = @ \ {e}],
                   MapKey(Top.v, e), Top.depth)
    /\ Untouched

\* formatMap formatting the value at the depth of the key
formatMapKeySameDepth ==
    /\ At("formatMap", "key")
    /\ Call([Top EXCEPT !.pc = "value", !.keyStr = ret],
            MapValue(Top.v, Top.cur), Top.depth)
    /\ Untouched

\* lines 244-245: the key's rendering has come back
formatMapKey ==
    /\ At("formatMap", "key")
    /\ Call([Top EXCEPT !.pc = "value", !.keyStr = ret],
            MapValue(Top.v, Top.cur), Top.depth + 1)
    /\ Untouched

\* lines 245-257: the value's rendering has come back
formatMapValue ==
    /\ At("formatMap", "value")
    /\ LET valueStr == ret IN
       IF valueStr = <<>> THEN Goto([Top EXCEPT !.pc = "range"])
       ELSE Goto([Top EXCEPT !.pc = "range",
                             !.sb = @ \o mapLine(Top.depth, Top.keyStr, valueStr)])
    /\ Untouched

formatMap == formatMapEntry \/ formatMapNext \/ formatMapKey \/ formatMapValue

\* ------------------------------------------------------- Output.printLLM

\* part_002 lines 457-459: printLLM calls formatter.format(data, 0)
printLLM ==
    /\ status = "start"
    /\ status' = "format"
    /\ UNCHANGED <<cells, root, stack, ret, written, err, name, label, extVars>>

\* format with a depth counter kept from one call to the next
formatSharedDepth ==
    /\ status = "format"
    /\ IF root = NilData THEN ret' = <<>> /\ status' = "return" /\ UNCHANGED stack
       ELSE IF Len(earlier) * (maxLLMDepth + 1) > maxLLMDepth
       THEN ret' = Ellipsis /\ status' = "return" /\ UNCHANGED stack
       ELSE /\ stack' = <<NewFrame("formatValue", Resolve(root), 0)>>
            /\ status' = "running"
            /\ UNCHANGED ret
    /\ Untouched

\* lines 82-92: format
format ==
    /\ status = "format"
    /\ IF root = NilData THEN ret' = <<>> /\ status' = "return" /\ UNCHANGED stack
       ELSE IF 0 > maxLLMDepth THEN ret' = Ellipsis /\ status' = "return" /\ UNCHANGED stack
       ELSE /\ stack' = <<NewFrame("formatValue", Resolve(root), 0)>>
            /\ status' = "running"
            /\ UNCHANGED ret
    /\ Untouched

\* printLLM without the test for an empty output
printLLMWriteAlways ==
    /\ status = "return"
    /\ \/ written' = Append(written, ret) /\ err' = "nil"
       \/ err' = "write error" /\ UNCHANGED written
    /\ status' = "done"
    /\ UNCHANGED <<cells, root, stack, ret, name, label, extVars>>

\* part_002 lines 460-464: nothing is written for an empty output; the
\* writer accepts the output or fails
printLLMWrite ==
    /\ status = "return"
    /\ LET output == ret IN
       IF output = <<>>
       THEN err' = "nil" /\ UNCHANGED written
       ELSE \/ written' = Append(written, output) /\ err' = "nil"
            \/ err' = "write error" /\ UNCHANGED written
    /\ status' = "done"
    /\ UNCHANGED <<cells, root, stack, ret, name, label, extVars>>

\* ---------------------------------------------------------------- inputs

nName == <<"N", "a", "m", "e">>
nFieldName == <<"F", "i", "e", "l", "d", "N", "a", "m", "e">>
nHTTPStatus == <<"H", "T", "T", "P", "S", "t", "a", "t", "u", "s">>
nID == <<"I", "D">>
nURLPath == <<"U", "R", "L", "P", "a", "t", "h">>
nXMLParser == <<"X", "M", "L", "P", "a", "r", "s", "e", "r">>
nInner == <<"I", "n", "n", "e", "r">>
nValue == <<"V", "a", "l", "u", "e">>
nLevel == <<"L", "e", "v", "e", "l">>
nNext == <<"N", "e", "x", "t">>
n_next == <<"n", "e", "x", "t">>
nItems == <<"I", "t", "e", "m", "s">>
nErr == <<"E", "r", "r">>
nData == <<"D", "a", "t", "a">>
nActive == <<"A", "c", "t", "i", "v", "e">>
nV2Beta == <<"V", "2", "B", "e", "t", "a">>

tA == <<"a">>
tB == <<"b">>
tMultiline == <<"x", NL, "y">>
tOuter == <<"o", "u", "t", "e", "r">>
tInnerValue == <<"i", "n", "n", "e", "r", "-", "v", "a", "l", "u", "e">>
tBoom == <<"b", "o", "o", "m">>
tTime == <<"2", "0", "2", "5", "-", "1", "2", "-", "3", "0", "T", "1", "0", ":", "3", "0", ":", "0", "0", "Z">>
tDuration == <<"2", "h", "3", "0", "m", "0", "s">>
tFloat == <<"1", ".", "5">>
tKey1 == <<"k", "1">>
tKey2 == <<"k", "2">>

\* errors.New(m): a pointer to an errorString; Error() has a pointer
\* receiver, so the pointer implements error and the struct does not
ErrorsNew(m) == WithError(Ptr(Struct(<<F(<<"s">>, Str(m))>>)), m)
\* a value of `type E string` with `func (e E) Error() string`
ValueError(m) == WithError(Str(m), m)

\* The zero / empty values of the shapes, and values that are not zero.
ZeroLeaves ==
    { Str(<<>>), Bool(FALSE), IntV(0), UintV(0), Float(0, <<"0">>),
      Slice(<<>>), Map(<<>>), Time(0, <<>>), Duration(0, <<"0", "s">>),
      NilPtr, NilIface, Bytes(<<>>) }

ScalarLeaves ==
    { Str(tA), Str(tMultiline), Bool(TRUE), IntV(42), IntV(-7), UintV(7),
      Float(1, tFloat), Time(1, tTime), Duration(1, tDuration),
      Ptr(Str(tA)), Ptr(IntV(0)), Ptr(Ptr(Bool(TRUE))), Iface(Bool(FALSE)),
      Bytes(<<171, 1>>), ErrorsNew(tBoom), ValueError(tBoom), Other(<<"<", "n", "i", "l", ">">>) }

CompositeLeaves ==
    { Struct(<<>>),
      Struct(<<F(nName, Str(<<>>)), F(nActive, Bool(FALSE))>>),
      Struct(<<F(nValue, Str(tInnerValue))>>),
      Ptr(Struct(<<F(nValue, Str(tA)), F(nActive, Bool(TRUE))>>)),
      Slice(<<Str(tA), Str(tB), Str(tA)>>),
      Slice(<<Str(<<>>), Str(tA), Str(<<>>), Str(tB)>>),
      Slice(<<Bool(TRUE), Bool(FALSE), Bool(TRUE)>>),
      Slice(<<IntV(0), Str(<<>>)>>),
      Slice(<<IntV(1), Iface(Struct(<<F(nValue, Str(tA))>>))>>),
      Slice(<<Struct(<<F(nValue, Str(tA))>>), Struct(<<>>), Struct(<<F(nValue, Str(tB))>>)>>),
      Slice(<<Time(1, tTime), Time(0, <<>>)>>),
      Slice(<<Time(1, tTime), Time(1, tTime)>>),
      Slice(<<Slice(<<Str(tA), Str(tB)>>), Slice(<<Str(tA)>>)>>),
      Map(<<E(Str(tKey1), Str(tA)), E(Str(tKey2), Bool(FALSE))>>),
      Map(<<E(Str(tKey1), Bool(TRUE)), E(Str(tKey2), Struct(<<F(nValue, Str(tB))>>))>>),
      Map(<<E(Bool(FALSE), IntV(0))>>) }

Leaves == ZeroLeaves \cup ScalarLeaves \cup CompositeLeaves

\* How a record refers to the next level of a nested input.
Links == {"inline", "ptr", "iface", "unexported", "slice", "map", "mixed"}

Link(l, v) ==
    CASE l = "inline" -> F(nNext, v)
      [] l = "ptr" -> F(nNext, Ptr(v))
      [] l = "iface" -> F(nNext, Iface(Ptr(v)))
      [] l = "unexported" -> F(n_next, Ptr(v))
      [] l = "slice" -> F(nItems, Slice(<<v>>))
      [] l = "map" -> F(nData, Map(<<E(Str(tKey1), v)>>))
      [] l = "mixed" -> F(nItems, Slice(<<IntV(1), Iface(v)>>))

\* k records nested through link l around the payload x
RECURSIVE Chain(_, _, _)
Chain(k, l, x) ==
    IF k = 0 THEN x
    ELSE Struct(<<F(nLevel, IntV(k)), Link(l, Chain(k - 1, l, x))>>)

\* k sequences []interface{}{1, next} nested around the payload x
RECURSIVE Nest(_, _)
Nest(k, x) == IF k = 0 THEN x ELSE Slice(<<IntV(1), Iface(Nest(k - 1, x))>>)

\* a byte slice of n bytes
Byte(k) == (k * 37 + 11) % 256
ByteSeq(n) == [k \in 1..n |-> Byte(k)]

MaxChain == 7
MaxBytes == 40

ChainPayloads ==
    { Str(tA), Bool(FALSE), Struct(<<>>), Struct(<<F(nValue, Str(tA))>>),
      Slice(<<Str(tA), Str(tB)>>), Slice(<<>>), Map(<<E(Str(tKey1), Str(tA))>>),
      Bytes(<<171, 1>>), Time(1, tTime), NilPtr,
      Struct(<<F(nName, Str(<<>>)), F(nActive, Bool(FALSE))>>),
      Map(<<E(Str(tKey1), Bool(FALSE))>>),
      Slice(<<Struct(<<F(nValue, Str(tA))>>), Struct(<<>>), Struct(<<F(nValue, Str(tB))>>)>>) }

SecondFields ==
    { Str(<<>>), Str(tB), Bool(FALSE), IntV(0), NilPtr,
      Struct(<<F(nValue, Str(tB))>>), Slice(<<Str(tA), Str(tB)>>) }

NoCells == <<>>
In(r) == [root |-> r, cells |-> NoCells]

TreeInputs ==
    {In(NilData)}
    \cup {In(x) : x \in Leaves}
    \cup {In(Struct(<<F(nName, x), F(nFieldName, y)>>)) : x \in Leaves, y \in SecondFields}
    \cup {In(Struct(<<F(nName, x), F(nFieldName, y), F(nActive, z)>>)) :
            x \in ZeroLeaves, y \in ZeroLeaves, z \in {Bool(FALSE), NilPtr}}
    \cup {In(Chain(k, l, x)) : k \in 1..MaxChain, l \in Links, x \in ChainPayloads}
    \cup {In(Nest(k, x)) : k \in 1..MaxChain, x \in ChainPayloads}
    \cup {In(Bytes(ByteSeq(n))) : n \in 0..MaxBytes}
    \cup {In(Struct(<<F(nData, Bytes(ByteSeq(n)))>>)) : n \in 0..MaxBytes}
    \cup {In(Struct(<<F(nm, Str(tA))>>)) :
            nm \in {nName, nFieldName, nHTTPStatus, nID, nURLPath, nXMLParser, nV2Beta}}
    \cup {In(Struct(<<F(nName, Str(tOuter)),
                      F(nInner, Struct(<<F(nValue, Str(tInnerValue))>>))>>))}
    \cup {In(Struct(<<F(nErr, Iface(ErrorsNew(tBoom)))>>))}

\* Self-referential inputs: cell 1 (and 2) hold the values referred to.
CyclicInputs ==
    { \* type Deep struct{Level int; Next *Deep}; d.Next = d; Print(d)
      [root |-> Ptr(CellRef(1)),
       cells |-> <<Struct(<<F(nLevel, IntV(1)), F(nNext, Ptr(CellRef(1)))>>)>>],
      \* a.Next = b; b.Next = a; Print(a)
      [root |-> Ptr(CellRef(1)),
       cells |-> <<Struct(<<F(nLevel, IntV(1)), F(nNext, Ptr(CellRef(2)))>>),
                   Struct(<<F(nLevel, IntV(2)), F(nNext, Ptr(CellRef(1)))>>)>>],
      \* var x interface{}; x = &x; Print(x)
      [root |-> Ptr(CellRef(1)), cells |-> <<Iface(Ptr(CellRef(1)))>>],
      \* the same x as a record field: struct{Data interface{}}{x}
      [root |-> Struct(<<F(nData, Iface(Ptr(CellRef(1))))>>),
       cells |-> <<Iface(Ptr(CellRef(1)))>>],
      \* the same x as the first element of a sequence
      [root |-> Slice(<<Iface(Ptr(CellRef(1)))>>), cells |-> <<Iface(Ptr(CellRef(1)))>>],
      \* s := []interface{}{1, nil}; s[1] = s; Print(s)
      [root |-> CellRef(1), cells |-> <<Slice(<<IntV(1), Iface(CellRef(1))>>)>>] }

Inputs == TreeInputs \cup CyclicInputs

\* ---------------------------------------------------------------- logger

\* logger.go lines 14-19
LevelDebug == 0
LevelInfo == 1
LevelWarn == 2
LevelError == 3

\* logger.go lines 22-35: Level.String
LevelString(level) ==
    CASE level = LevelDebug -> "DEBUG"
      [] level = LevelInfo -> "INFO"
      [] level = LevelWarn -> "WARN"
      [] level = LevelError -> "ERROR"
      [] OTHER -> "UNKNOWN"

\* logger.go lines 65-72, 75-82: a SimpleLogger as New makes it; mu is
\* "free" or the goroutine that holds it
New(nm) ==
    [mu |-> "free", name |-> nm, level |-> LevelInfo, out |-> "os.Stdout",
     context |-> <<>>]

\* no logger call is under way
Resting == [pc |-> "idle", l |-> 0, level |-> 0, line |-> <<>>]

\* the package logger is not in use
NoLoggers ==
    /\ loggers = <<>>
    /\ outs = <<>>
    /\ procs = <<>>

\* ---------------------------------------------------------------- config

\* part_003 lines 415-421: DefaultPaths("myapp") where XDG_CONFIG_HOME is
\* unset and there is no home directory
DefaultPaths ==
    <<"myapp.yaml", "myapp.yml", ".myapp.yaml", ".myapp.yml">>

\* part_003 lines 336-341
NewLoader == [appName |-> "myapp", paths |-> DefaultPaths]

\* nothing has been called yet
NoCall ==
    [op |-> "none", err |-> "nil", path |-> "", found |-> FALSE,
     probed |-> <<>>, read |-> <<>>, arg |-> <<>>, dst |-> <<>>]

\* package config is not in use
NoLoader ==
    /\ loader = NewLoader
    /\ files = <<>>
    /\ returned = NoCall

\* no test has begun
NoRun == [cleanups |-> <<>>, state |-> "none", calls |-> <<>>, environ |-> <<>>]

NoTest ==
    /\ env = <<>>
    /\ test = NoRun

\* the files the process starts with, and a pipe os.Pipe has not made
Installed == [Stdout |-> "/dev/stdout", Stderr |-> "/dev/stderr"]
NoPipe == [data |-> <<>>, w |-> "none"]

\* no call of Capture, CaptureStdout or CaptureStderr has begun
NoCapture ==
    /\ os = Installed
    /\ pipes = [Stdout |-> NoPipe, Stderr |-> NoPipe]
    /\ capture = [fn |-> "none"]

\* ---------------------------------------------------------------- Output

\* strings.ToLower on the ASCII range
toLowerRune(c) ==
    IF IsUpper(c)
    THEN LowerLetters[CHOOSE k \in DOMAIN UpperLetters : UpperLetters[k] = c]
    ELSE c
ToLower(s) == [k \in DOMAIN s |-> toLowerRune(s[k])]

\* the format tokens Print knows, and its default
fJson == <<"j", "s", "o", "n">>
fYaml == <<"y", "a", "m", "l">>
fYml == <<"y", "m", "l">>
fLlm == <<"l", "l", "m">>
fText == <<"t", "e", "x", "t">>

\* part_002 lines 417-421, 423-428: the Output object, as NewOutput makes it
Writers == {"os.Stdout", "buf"}
NewOutput == [writer |-> "os.Stdout", format |-> fText]

\* part_002 lines 444-453: the print function Print hands the data to
PrinterFor(fmt) ==
    CASE fmt = fJson -> "printJSON"
      [] fmt \in {fYaml, fYml} -> "printYAML"
      [] fmt = fLlm -> "printLLM"
      [] OTHER -> "printText"

\* NewOutput().SetWriter(w).SetFormat(f), before anything is printed
OutputWith(w, f) ==
    /\ o = [writer |-> w, format |-> ToLower(f)]
    /\ token = f
    /\ encoded = <<>>

\* --------------------------------------------------------- specification

Init ==
    /\ \E in \in Inputs : root = in.root /\ cells = in.cells
    /\ stack = <<>>
    /\ ret = <<>>
    /\ status = "start"
    /\ written = <<>>
    /\ err = "nil"
    /\ name = <<>>
    /\ label = <<>>
    /\ OutputWith("buf", fLlm)
    /\ earlier = <<>>
    /\ NoLoggers
    /\ NoLoader
    /\ args = <<>>
    /\ NoTest
    /\ NoCapture

Next ==
    \/ printLLM
    \/ format
    \/ formatValue
    \/ formatStruct
    \/ formatSlice
    \/ formatMap
    \/ printLLMWrite

Spec == Init /\ [][Next]_vars

\* fieldNameToLabel on its own: every identifier of up to MaxNameLen
\* characters over NameAlphabet, and the identifiers of the tests.
MaxNameLen == 4
NameAlphabet == {"A", "B", "a", "b", "1"}

NamesUpTo(n) == UNION {[1..k -> NameAlphabet] : k \in 1..n}
Names ==
    NamesUpTo(MaxNameLen)
    \cup {nName, nFieldName, nHTTPStatus, nID, nURLPath, nXMLParser, nV2Beta}

InitLabel ==
    /\ name \in Names
    /\ label = <<>>
    /\ status = "name"
    /\ cells = NoCells
    /\ root = NilData
    /\ stack = <<>>
    /\ ret = <<>>
    /\ written = <<>>
    /\ err = "nil"
    /\ OutputWith("os.Stdout", fText)
    /\ earlier = <<>>
    /\ NoLoggers
    /\ NoLoader
    /\ args = <<>>
    /\ NoTest
    /\ NoCapture

\* lines 298-316
fieldNameToLabelCall ==
    /\ status = "name"
    /\ label' = fieldNameToLabel(name)
    /\ status' = "label"
    /\ UNCHANGED <<cells, root, stack, ret, written, err, name, extVars>>

NextLabel == fieldNameToLabelCall

SpecLabel == InitLabel /\ [][NextLabel]_vars

\* Print runs to its end unless it cannot: every enabled step is taken.
FairSpec == Spec /\ WF_vars(Next)

\* ------------------------------------------------- Output: SetFormat, Print

\* every spelling of t in lower and upper case
RECURSIVE CaseVariants(_)
CaseVariants(t) ==
    IF t = <<>> THEN {<<>>}
    ELSE {<<c>> \o r : c \in {t[1], ToUpper(t[1])}, r \in CaseVariants(Tail(t))}

\* the tokens handed to SetFormat: the known ones in every spelling, and
\* tokens Print does not know
tTest == <<"t", "e", "s", "t">>
Formats ==
    CaseVariants(fLlm) \cup CaseVariants(fYml)
    \cup {fJson, <<"J", "s", "o", "n">>, <<"J", "S", "O", "N">>}
    \cup {fYaml, <<"Y", "A", "M", "L">>}
    \cup {fText, <<>>, <<"x", "m", "l">>, fLlm \o <<"s">>, <<SP>> \o fLlm,
          <<"l", "m">>, <<"L", "L", "M", "S">>}

\* the data handed to Print: TestOutput_SetFormat_LLM's record, a pointer
\* to it, nil
PrintInputs ==
    {In(Struct(<<F(nName, Str(tTest))>>)), In(Ptr(Struct(<<F(nName, Str(tTest))>>))),
     In(NilData)}

\* the number of outputs a behaviour prints
MaxPrints == 1

\* part_002 lines 431-434
SetWriter(w) ==
    /\ status = "idle"
    /\ o' = [o EXCEPT !.writer = w]
    /\ UNCHANGED <<cells, root, stack, ret, status, written, err, name, label,
                   token, encoded, earlier, farVars>>

\* SetFormat keeping the token as it was given
SetFormatVerbatim(f) ==
    /\ status = "idle"
    /\ o' = [o EXCEPT !.format = f]
    /\ token' = f
    /\ UNCHANGED <<cells, root, stack, ret, status, written, err, name, label,
                   encoded, earlier, farVars>>

\* part_002 lines 437-440
SetFormat(f) ==
    /\ status = "idle"
    /\ o' = [o EXCEPT !.format = ToLower(f)]
    /\ token' = f
    /\ UNCHANGED <<cells, root, stack, ret, status, written, err, name, label,
                   encoded, earlier, farVars>>

\* part_002 lines 443-454: Print hands data to the print function of o.format
OutputPrint(data) ==
    /\ status = "idle"
    /\ Len(written) + Len(encoded) < MaxPrints
    /\ root' = data.root
    /\ cells' = data.cells
    /\ status' = (IF PrinterFor(o.format) = "printLLM" THEN "start"
                  ELSE PrinterFor(o.format))
    /\ UNCHANGED <<stack, ret, written, err, name, label, extVars>>

\* part_002 lines 467-482: the encoder of encoding/json, of yaml.v3 or
\* fmt.Fprintln is called on o.writer with the data
Encode(fn, encoder) ==
    /\ status = fn
    /\ \/ /\ encoded' = Append(encoded, [encoder |-> encoder, writer |-> o.writer,
                                         data |-> root])
          /\ err' = "nil"
       \/ err' = "write error" /\ UNCHANGED encoded
    /\ status' = "done"
    /\ UNCHANGED <<cells, root, stack, ret, written, name, label, o, token, earlier, farVars>>

printJSON == Encode("printJSON", "json")
printYAML == Encode("printYAML", "yaml")
printText == Encode("printText", "fmt.Fprintln")

\* Print returns to its caller
PrintReturn ==
    /\ status = "done"
    /\ status' = "idle"
    /\ UNCHANGED <<cells, root, stack, ret, written, err, name, label, extVars>>

InitOutput ==
    /\ root = NilData
    /\ cells = NoCells
    /\ stack = <<>>
    /\ ret = <<>>
    /\ status = "idle"
    /\ written = <<>>
    /\ err = "nil"
    /\ name = <<>>
    /\ label = <<>>
    /\ OutputWith("os.Stdout", fText)
    /\ earlier = <<>>
    /\ NoLoggers
    /\ NoLoader
    /\ args = <<>>
    /\ NoTest
    /\ NoCapture

NextOutput ==
    \/ \E w \in Writers : SetWriter(w)
    \/ \E f \in Formats : SetFormat(f)
    \/ \E data \in PrintInputs : OutputPrint(data)
    \/ printJSON
    \/ printYAML
    \/ printText
    \/ printLLM
    \/ format
    \/ formatValue
    \/ formatStruct
    \/ printLLMWrite
    \/ PrintReturn

SpecOutput == InitOutput /\ [][NextOutput]_vars


\* ----------------------------------------------- format, called repeatedly

\* the number of calls of format on one value
MaxCalls == 2

InitAgain ==
    /\ \E in \in Inputs : root = in.root /\ cells = in.cells
    /\ stack = <<>>
    /\ ret = <<>>
    /\ status = "format"
    /\ written = <<>>
    /\ err = "nil"
    /\ name = <<>>
    /\ label = <<>>
    /\ OutputWith("buf", fLlm)
    /\ earlier = <<>>
    /\ NoLoggers
    /\ NoLoader
    /\ args = <<>>
    /\ NoTest
    /\ NoCapture

\* part_002 lines 458-459: format has returned and a new formatter is handed
\* the same data
formatAgain ==
    /\ status = "return"
    /\ Len(earlier) < MaxCalls - 1
    /\ earlier' = Append(earlier, ret)
    /\ status' = "format"
    /\ UNCHANGED <<cells, root, stack, ret, written, err, name, label, outVars, farVars>>

NextAgain ==
    \/ format
    \/ formatValue
    \/ formatStruct
    \/ formatSlice
    \/ formatMap
    \/ formatAgain

SpecAgain == InitAgain /\ [][NextAgain]_vars


\* ------------------------------------------------------------ SimpleLogger

\* the formatter and Output are not in use
NoOutput ==
    /\ root = NilData
    /\ cells = NoCells
    /\ stack = <<>>
    /\ ret = <<>>
    /\ status = "idle"
    /\ written = <<>>
    /\ err = "nil"
    /\ name = <<>>
    /\ label = <<>>
    /\ OutputWith("os.Stdout", fText)
    /\ earlier = <<>>

\* the number of loggers a behaviour makes and of lines it writes
MaxLoggers == 3
MaxLines == 1

LogWriters == {"os.Stdout", "buf"}
LogLevels == {LevelDebug, LevelInfo, LevelWarn, LevelError}
ContextKeys == {"request_id", "user"}
ContextValues == {"abc123"}

\* the orders in which a range over the map m can yield its keys
Orders(m) ==
    {q \in [1..Cardinality(DOMAIN m) -> DOMAIN m] :
        \A i, j \in DOMAIN q : i # j => q[i] # q[j]}

\* l.mu.Lock() by goroutine p, which is in no other call
Lock(p, l) ==
    /\ procs[p].pc = "idle"
    /\ loggers[l].mu = "free"

\* logger.go lines 85-89
SetOutput(p, l, w) ==
    /\ Lock(p, l)
    /\ loggers' = [loggers EXCEPT ![l].out = w]
    /\ UNCHANGED <<outs, procs, notLog>>

\* logger.go lines 92-96
SetLevel(p, l, level) ==
    /\ Lock(p, l)
    /\ loggers' = [loggers EXCEPT ![l].level = level]
    /\ UNCHANGED <<outs, procs, notLog>>

\* WithContext handing its own map to the new logger
WithContextShared(p, l, key, value) ==
    /\ Lock(p, l)
    /\ Len(loggers) < MaxLoggers
    /\ LET newContext == (key :> value) @@ loggers[l].context
       IN loggers' = Append([loggers EXCEPT ![l].context = newContext],
              [mu |-> "free", name |-> loggers[l].name, level |-> loggers[l].level,
               out |-> loggers[l].out, context |-> newContext])
    /\ UNCHANGED <<outs, procs, notLog>>

\* logger.go lines 105-122
WithContext(p, l, key, value) ==
    /\ Lock(p, l)
    /\ Len(loggers) < MaxLoggers
    /\ LET newContext == (key :> value) @@ loggers[l].context
       IN loggers' = Append(loggers,
              [mu |-> "free", name |-> loggers[l].name, level |-> loggers[l].level,
               out |-> loggers[l].out, context |-> newContext])
    /\ UNCHANGED <<outs, procs, notLog>>

\* the line log builds for logger l at a level, its context in the order q
Line(l, level, q) ==
    [level |-> LevelString(level), name |-> loggers[l].name,
     context |-> [i \in DOMAIN q |-> <<q[i], loggers[l].context[q[i]]>>]]

\* log filtering the levels up to and including the logger's
logInclusive(p, l, level) ==
    /\ Lock(p, l)
    /\ Len(outs["os.Stdout"]) + Len(outs["buf"]) < MaxLines
    /\ loggers' = [loggers EXCEPT ![l].mu = p]
    /\ IF level <= loggers[l].level
       THEN procs' = [procs EXCEPT ![p] =
               [pc |-> "return", l |-> l, level |-> level, line |-> <<>>]]
       ELSE \E q \in Orders(loggers[l].context) :
               procs' = [procs EXCEPT ![p] =
                   [pc |-> "write", l |-> l, level |-> level, line |-> Line(l, level, q)]]
    /\ UNCHANGED <<outs, notLog>>

\* logger.go lines 124-145 (Debug, Info, Warn, Error: lines 152-169): the
\* lock is taken, the level is tested and the strings of the line are built
log(p, l, level) ==
    /\ Lock(p, l)
    /\ Len(outs["os.Stdout"]) + Len(outs["buf"]) < MaxLines
    /\ loggers' = [loggers EXCEPT ![l].mu = p]
    /\ IF level < loggers[l].level
       THEN procs' = [procs EXCEPT ![p] =
               [pc |-> "return", l |-> l, level |-> level, line |-> <<>>]]
       ELSE \E q \in Orders(loggers[l].context) :
               procs' = [procs EXCEPT ![p] =
                   [pc |-> "write", l |-> l, level |-> level, line |-> Line(l, level, q)]]
    /\ UNCHANGED <<outs, notLog>>

\* logger.go lines 128-130, 126: return of a filtered call, mu is unlocked
logReturn(p) ==
    /\ procs[p].pc = "return"
    /\ loggers' = [loggers EXCEPT ![procs[p].l].mu = "free"]
    /\ procs' = [procs EXCEPT ![p].pc = "idle"]
    /\ UNCHANGED <<outs, notLog>>

\* logger.go lines 147-149, 126: the line is written to l.out, mu is unlocked
logWrite(p) ==
    /\ procs[p].pc = "write"
    /\ LET w == loggers[procs[p].l].out
       IN outs' = [outs EXCEPT ![w] = Append(@, procs[p].line)]
    /\ loggers' = [loggers EXCEPT ![procs[p].l].mu = "free"]
    /\ procs' = [procs EXCEPT ![p].pc = "idle"]
    /\ UNCHANGED notLog

\* l := New("test"), used by one goroutine
InitLogger ==
    /\ NoOutput
    /\ NoLoader
    /\ args = <<>>
    /\ NoTest
    /\ NoCapture
    /\ loggers = <<New("test")>>
    /\ outs = [w \in LogWriters |-> <<>>]
    /\ procs = [p \in {"g1"} |-> Resting]

\* the methods of the one logger
NextLogger ==
    \/ \E p \in DOMAIN procs, w \in LogWriters : SetOutput(p, 1, w)
    \/ \E p \in DOMAIN procs, level \in LogLevels : SetLevel(p, 1, level)
    \/ \E p \in DOMAIN procs, level \in LogLevels : log(p, 1, level)
    \/ \E p \in DOMAIN procs : logReturn(p)
    \/ \E p \in DOMAIN procs : logWrite(p)

SpecLogger == InitLogger /\ [][NextLogger]_vars

\* the methods of a logger and of the loggers derived from it, with Info
\* calls, SetLevel(LevelError) and SetOutput(&buf)
NextContext ==
    \/ \E p \in DOMAIN procs, l \in DOMAIN loggers : SetOutput(p, l, "buf")
    \/ \E p \in DOMAIN procs, l \in DOMAIN loggers : SetLevel(p, l, LevelError)
    \/ \E p \in DOMAIN procs, l \in DOMAIN loggers, key \in ContextKeys,
          value \in ContextValues : WithContext(p, l, key, value)
    \/ \E p \in DOMAIN procs, l \in DOMAIN loggers : log(p, l, LevelInfo)
    \/ \E p \in DOMAIN procs : logReturn(p)
    \/ \E p \in DOMAIN procs : logWrite(p)

SpecContext == InitLogger /\ [][NextContext]_vars


\* two goroutines share the logger and the loggers derived from it
Goroutines == {"g1", "g2"}

InitShared ==
    /\ NoOutput
    /\ NoLoader
    /\ args = <<>>
    /\ NoTest
    /\ NoCapture
    /\ loggers = <<New("test")>>
    /\ outs = [w \in LogWriters |-> <<>>]
    /\ procs = [p \in Goroutines |-> Resting]

\* logger.go line 148: the goroutine, holding l.mu, enters
\* fmt.Fprintf(l.out, ...); the write is under way until Fprintf returns
logFprintf(p) ==
    /\ procs[p].pc = "write"
    /\ procs' = [procs EXCEPT ![p].pc = "writing"]
    /\ UNCHANGED <<loggers, outs, notLog>>

\* logger.go lines 148-150, 126: Fprintf returns, the line is in the writer,
\* mu is unlocked
logWritten(p) ==
    /\ procs[p].pc = "writing"
    /\ LET w == loggers[procs[p].l].out
       IN outs' = [outs EXCEPT ![w] = Append(@, procs[p].line)]
    /\ loggers' = [loggers EXCEPT ![procs[p].l].mu = "free"]
    /\ procs' = [procs EXCEPT ![p].pc = "idle"]
    /\ UNCHANGED notLog

\* the calls the goroutines make, each at any time: Info on any logger,
\* SetLevel(LevelError), SetOutput(&buf), WithContext("request_id", "abc123")
NextShared ==
    \/ \E p \in DOMAIN procs, l \in DOMAIN loggers : SetOutput(p, l, "buf")
    \/ \E p \in DOMAIN procs, l \in DOMAIN loggers : SetLevel(p, l, LevelError)
    \/ \E p \in DOMAIN procs, l \in DOMAIN loggers :
          WithContext(p, l, "request_id", "abc123")
    \/ \E p \in DOMAIN procs, l \in DOMAIN loggers : log(p, l, LevelInfo)
    \/ \E p \in DOMAIN procs : logReturn(p)
    \/ \E p \in DOMAIN procs : logFprintf(p)
    \/ \E p \in DOMAIN procs : logWritten(p)

SpecShared == InitShared /\ [][NextShared]_vars


\* ------------------------------------------------------------------ Loader

\* the search list is at most this long
MaxPaths == 6

\* the paths handed to WithPaths, AddPath and PrependPath
CustomPaths == {"custom.yaml", "other.yaml"}
CustomLists ==
    {<<>>} \cup {<<a>> : a \in CustomPaths}
    \cup {<<a, b>> : a \in CustomPaths, b \in CustomPaths}

\* what is at a path: nothing, a file of valid YAML, something os.Stat finds
\* and os.ReadFile cannot read (a directory), a file yaml.Unmarshal rejects
Kinds == {"missing", "valid", "unreadable", "invalid"}
AllPaths == CustomPaths \cup Range(DefaultPaths)
FileSystems ==
    {f \in [AllPaths -> Kinds] :
        /\ \A a \in AllPaths \ (CustomPaths \cup {"myapp.yaml"}) : f[a] = "missing"
        /\ Cardinality({a \in AllPaths : f[a] # "missing"}) <= 2}

\* the values a caller hands in as dst
Defaults == {[name |-> "default-name", port |-> 3000], [name |-> "", port |-> 0]}

\* os.Stat(path) returns a nil error
Stat(path) == files[path] # "missing"

\* part_003 lines 379-390: LoadFrom, as the set of its outcomes; a file that
\* does not parse may have set a part of dst
LoadFrom(path, d) ==
    CASE files[path] = "valid" ->
            {[err |-> "nil", dst |-> [name |-> path, port |-> 8080], read |-> <<path>>]}
      [] files[path] = "invalid" ->
            {[err |-> "failed to parse config file", dst |-> x, read |-> <<path>>] :
                x \in {d, [d EXCEPT !.name = path]}}
      [] OTHER ->
            {[err |-> "failed to read config file", dst |-> d, read |-> <<path>>]}

\* the loop of Load, LoadOrDefault and FindConfigFile: the position in
\* paths, from i on, of the first path os.Stat finds, 0 when it finds none
RECURSIVE rangePaths(_, _)
rangePaths(paths, i) ==
    IF i > Len(paths) THEN 0
    ELSE IF Stat(paths[i]) THEN i
    ELSE rangePaths(paths, i + 1)

\* the paths os.Stat was called with when the loop ended at position k
Probed(paths, k) == IF k = 0 THEN paths ELSE SubSeq(paths, 1, k)

\* part_003 lines 344-347
WithPaths(paths) ==
    /\ loader' = [loader EXCEPT !.paths = paths]
    /\ returned' = [NoCall EXCEPT !.op = "WithPaths"]
    /\ UNCHANGED <<files, notCfg>>

\* part_003 lines 350-353
AddPath(path) ==
    /\ Len(loader.paths) < MaxPaths
    /\ loader' = [loader EXCEPT !.paths = Append(loader.paths, path)]
    /\ returned' = [NoCall EXCEPT !.op = "AddPath"]
    /\ UNCHANGED <<files, notCfg>>

\* part_003 lines 356-359
PrependPath(path) ==
    /\ Len(loader.paths) < MaxPaths
    /\ loader' = [loader EXCEPT !.paths = <<path>> \o loader.paths]
    /\ returned' = [NoCall EXCEPT !.op = "PrependPath"]
    /\ UNCHANGED <<files, notCfg>>

\* a call has returned r for the dst the caller initialised as d
Returns(op, d, r, k) ==
    /\ returned' = [op |-> op, err |-> r.err, path |-> "", found |-> FALSE,
                    probed |-> Probed(loader.paths, k), read |-> r.read, arg |-> <<d>>,
                    dst |-> r.dst]
    /\ UNCHANGED <<loader, files, notCfg>>

\* Load going on to the next path when a file cannot be read
LoadSkipsUnreadable(d) ==
    LET k == rangePaths(loader.paths, 1)
        readable == {i \in DOMAIN loader.paths : files[loader.paths[i]] \in {"valid", "invalid"}}
        j == IF readable = {} THEN 0 ELSE CHOOSE i \in readable : \A x \in readable : i <= x
    IN IF j = 0
       THEN Returns("Load", d, [err |-> "no config file found", dst |-> d, read |-> <<>>], 0)
       ELSE \E r \in LoadFrom(loader.paths[j], d) : Returns("Load", d, r, j)

\* part_003 lines 367-376
Load(d) ==
    LET k == rangePaths(loader.paths, 1)
    IN IF k = 0
       THEN Returns("Load", d, [err |-> "no config file found", dst |-> d, read |-> <<>>], 0)
       ELSE \E r \in LoadFrom(loader.paths[k], d) : Returns("Load", d, r, k)

\* LoadOrDefault returning a nil error whatever happened
LoadOrDefaultLenient(d) ==
    LET k == rangePaths(loader.paths, 1)
    IN IF k = 0
       THEN Returns("LoadOrDefault", d, [err |-> "nil", dst |-> d, read |-> <<>>], 0)
       ELSE \E r \in LoadFrom(loader.paths[k], d) :
               Returns("LoadOrDefault", d, [r EXCEPT !.err = "nil"], k)

\* part_003 lines 394-402
LoadOrDefault(d) ==
    LET k == rangePaths(loader.paths, 1)
    IN IF k = 0
       THEN Returns("LoadOrDefault", d, [err |-> "nil", dst |-> d, read |-> <<>>], 0)
       ELSE \E r \in LoadFrom(loader.paths[k], d) : Returns("LoadOrDefault", d, r, k)

\* part_003 lines 405-412
FindConfigFile ==
    LET k == rangePaths(loader.paths, 1)
    IN /\ returned' = [op |-> "FindConfigFile", err |-> "nil",
                       path |-> (IF k = 0 THEN "" ELSE loader.paths[k]),
                       found |-> (k # 0),
                       probed |-> Probed(loader.paths, k), read |-> <<>>, arg |-> <<>>,
                       dst |-> <<>>]
       /\ UNCHANGED <<loader, files, notCfg>>

\* NewLoader("myapp") in any state of the file system
InitLoader ==
    /\ NoOutput
    /\ NoLoggers
    /\ loader = NewLoader
    /\ files \in FileSystems
    /\ returned = NoCall
    /\ args = <<>>
    /\ NoTest
    /\ NoCapture

NextLoader ==
    \/ \E paths \in CustomLists : WithPaths(paths)
    \/ \E path \in CustomPaths : AddPath(path)
    \/ \E path \in CustomPaths : PrependPath(path)
    \/ \E d \in Defaults : Load(d)
    \/ \E d \in Defaults : LoadOrDefault(d)
    \/ FindConfigFile

SpecLoader == InitLoader /\ [][NextLoader]_vars


\* ---------------------------------------------------------- package errors

\* An error value: id tells one error value from another (errors made by
\* errors.New and fmt.Errorf are pointers), msg is the text of Error() in
\* pieces, unwrap holds what Unwrap() returns.  NilError is the nil error.
NilError == [id |-> "nil", msg |-> <<>>, unwrap |-> <<>>]

\* errors.New(message), as the value with identity id
NewError(id, message) == [id |-> id, msg |-> <<message>>, unwrap |-> <<>>]

\* fmt.Errorf: the new error value, its text and what its %w verbs wrap
Errorf(id, msg, wrapped) == [id |-> id, msg |-> msg, unwrap |-> wrapped]

\* Wrap formatting err with %v
WrapFlattensErr(e, target) ==
    IF e = NilError THEN target
    ELSE IF target = NilError THEN e
    ELSE Errorf("result", target.msg \o <<": ">> \o e.msg, <<target>>)

\* part_006 lines 24-32
Wrap(e, target) ==
    IF e = NilError THEN target
    ELSE IF target = NilError THEN e
    ELSE Errorf("result", target.msg \o <<": ">> \o e.msg, <<target, e>>)

\* part_006 lines 35-40
WrapWithMessage(e, message) ==
    IF e = NilError THEN NilError
    ELSE Errorf("result", <<message, ": ">> \o e.msg, <<e>>)

\* part_006 lines 43-48
WrapOp(operation, e) ==
    IF e = NilError THEN NilError
    ELSE Errorf("result", <<operation, " failed: ">> \o e.msg, <<e>>)

\* errors.Is on non-nil errors: e is target, or an error e wraps is
RECURSIVE isTree(_, _)
isTree(e, target) ==
    \/ e.id = target.id
    \/ \E i \in DOMAIN e.unwrap : isTree(e.unwrap[i], target)

\* part_006 lines 61-63
Is(e, target) ==
    IF e = NilError \/ target = NilError THEN e = target
    ELSE isTree(e, target)

\* the errors handed in: nil, two sentinels, two errors.New of one message,
\* and errors that wrap already
ErrNotFound == NewError("ErrNotFound", "not found")
ErrTimeout == NewError("ErrTimeout", "operation timed out")
Errors ==
    {NilError, ErrNotFound, ErrTimeout,
     NewError("inner", "test error"), NewError("outer", "test error"),
     Errorf("wrapped", <<"context", ": ", "not found">>, <<ErrNotFound>>),
     Errorf("both", <<"operation timed out", ": ", "not found">>,
            <<ErrTimeout, ErrNotFound>>)}
Messages == {"context message", ""}

InitErrors ==
    /\ NoOutput
    /\ NoLoggers
    /\ loader = NewLoader
    /\ files = <<>>
    /\ returned = NoCall
    /\ args \in [err : Errors, target : Errors, message : Messages]
    /\ NoTest
    /\ NoCapture

\* a caller calls Wrap, WrapWithMessage, WrapOp
CallWrap ==
    /\ returned = NoCall
    /\ returned' = [op |-> "Wrap", value |-> Wrap(args.err, args.target)]
    /\ UNCHANGED <<args, notPure>>

CallWrapWithMessage ==
    /\ returned = NoCall
    /\ returned' = [op |-> "WrapWithMessage",
                    value |-> WrapWithMessage(args.err, args.message)]
    /\ UNCHANGED <<args, notPure>>

CallWrapOp ==
    /\ returned = NoCall
    /\ returned' = [op |-> "WrapOp", value |-> WrapOp(args.message, args.err)]
    /\ UNCHANGED <<args, notPure>>

NextErrors ==
    \/ CallWrap
    \/ CallWrapWithMessage
    \/ CallWrapOp

SpecErrors == InitErrors /\ [][NextErrors]_vars


\* --------------------------------------------------------- package version

\* the value GitCommit has when no build sets it (part_004 line 14)
unknown == <<"u","n","k","n","o","w","n">>

\* Full without the test for "unknown"
FullKeepsUnknown(i) ==
    IF i.GitCommit # <<>> /\ Len(i.GitCommit) >= 7
    THEN i.Version \o <<"-">> \o SubSeq(i.GitCommit, 1, 7)
    ELSE i.Version

\* part_004 lines 59-64; len and [:7] count bytes, one per element here
Full(i) ==
    IF i.GitCommit # <<>> /\ i.GitCommit # unknown /\ Len(i.GitCommit) >= 7
    THEN i.Version \o <<"-">> \o SubSeq(i.GitCommit, 1, 7)
    ELSE i.Version

\* part_004 lines 54-56
Short(i) == i.Version

\* commit hashes of every length up to MaxCommit, "unknown", what is one
\* byte shorter and one byte longer than it
MaxCommit == 8
Hash(n) == [k \in 1..n |-> HexDigits[((k + 9) % 16) + 1]]
Commits ==
    {Hash(n) : n \in 0..MaxCommit}
        \cup {unknown, SubSeq(unknown, 1, 6), unknown \o <<"1">>}
Versions == {<<"1",".","0",".","0">>, <<"2",".","0">>, <<"d","e","v">>, <<>>}

InitVersion ==
    /\ NoOutput
    /\ NoLoggers
    /\ loader = NewLoader
    /\ files = <<>>
    /\ returned = NoCall
    /\ args \in [Version : Versions, GitCommit : Commits]
    /\ NoTest
    /\ NoCapture

CallFull ==
    /\ returned = NoCall
    /\ returned' = [op |-> "Full", value |-> Full(args)]
    /\ UNCHANGED <<args, notPure>>

CallShort ==
    /\ returned = NoCall
    /\ returned' = [op |-> "Short", value |-> Short(args)]
    /\ UNCHANGED <<args, notPure>>

NextVersion ==
    \/ CallFull
    \/ CallShort

SpecVersion == InitVersion /\ [][NextVersion]_vars


\* -------------------------------------------------------- package testutil

\* A variable of the environment is [existed, old], as os.LookupEnv returns
\* it: old is "" when the variable is not set.
NotSet == [existed |-> FALSE, old |-> ""]
IsSet(value) == [existed |-> TRUE, old |-> value]
LookupEnv(key) == env[key]

\* os.Setenv fails on a value holding a NUL byte, os.Unsetenv on no key here
NUL == "\\x00"
SetenvFails(key, value) == value = NUL

MaxEnvCalls == 3
Keys == {"APP_ENV", "HOME"}
Values == {"", "dev"}
Environs == [Keys -> {NotSet} \cup {IsSet(v) : v \in Values}]

\* t.Cleanup(f): f is kept by the key, old and existed it closes over and by
\* what its else branch does
Register(f, call) ==
    [test EXCEPT !.cleanups = Append(@, f), !.calls = Append(@, call)]

\* t.Fatalf: the test function stops, its cleanups run
Fatalf(call) ==
    [test EXCEPT !.state = "cleanup", !.calls = Append(@, call)]

\* SetEnv with a cleanup that restores a variable only if it existed
SetEnvForgetsUnset(key, value) ==
    /\ test.state = "running"
    /\ Len(test.calls) < MaxEnvCalls
    /\ IF SetenvFails(key, value)
       THEN /\ test' = Fatalf("SetEnv")
            /\ env' = env
       ELSE /\ env' = [env EXCEPT ![key] = IsSet(value)]
            /\ test' = Register([key |-> key, old |-> LookupEnv(key).old,
                                 existed |-> LookupEnv(key).existed,
                                 otherwise |-> "nothing"], "SetEnv")
    /\ UNCHANGED notEnv

\* part_003 lines 1061-1074
SetEnv(key, value) ==
    /\ test.state = "running"
    /\ Len(test.calls) < MaxEnvCalls
    /\ IF SetenvFails(key, value)
       THEN /\ test' = Fatalf("SetEnv")
            /\ env' = env
       ELSE /\ env' = [env EXCEPT ![key] = IsSet(value)]
            /\ test' = Register([key |-> key, old |-> LookupEnv(key).old,
                                 existed |-> LookupEnv(key).existed,
                                 otherwise |-> "Unsetenv"], "SetEnv")
    /\ UNCHANGED notEnv

\* part_003 lines 1077-1088
UnsetEnv(key) ==
    /\ test.state = "running"
    /\ Len(test.calls) < MaxEnvCalls
    /\ env' = [env EXCEPT ![key] = NotSet]
    /\ test' = Register([key |-> key, old |-> LookupEnv(key).old,
                         existed |-> LookupEnv(key).existed,
                         otherwise |-> "nothing"], "UnsetEnv")
    /\ UNCHANGED notEnv

\* the test function returns
Finish ==
    /\ test.state = "running"
    /\ test' = [test EXCEPT !.state = "cleanup"]
    /\ UNCHANGED <<env, notEnv>>

\* the testing package runs the cleanup registered last and drops it
\* (part_003 lines 1067-1073 and 1083-1087 are the functions it runs)
Cleanup ==
    /\ test.state = "cleanup"
    /\ test.cleanups # <<>>
    /\ LET f == test.cleanups[Len(test.cleanups)]
       IN /\ env' = IF f.existed THEN [env EXCEPT ![f.key] = IsSet(f.old)]
                    ELSE IF f.otherwise = "Unsetenv"
                         THEN [env EXCEPT ![f.key] = NotSet]
                         ELSE env
          /\ test' = [test EXCEPT
                         !.cleanups = SubSeq(@, 1, Len(@) - 1)]
    /\ UNCHANGED notEnv

\* every cleanup has run
CleanupsDone ==
    /\ test.state = "cleanup"
    /\ test.cleanups = <<>>
    /\ test' = [test EXCEPT !.state = "done"]
    /\ UNCHANGED <<env, notEnv>>

InitEnv ==
    /\ NoOutput
    /\ NoLoggers
    /\ NoLoader
    /\ args = <<>>
    /\ env \in Environs
    /\ test = [NoRun EXCEPT !.state = "running", !.environ = env]
    /\ NoCapture

NextEnv ==
    \/ \E key \in Keys, value \in Values \cup {NUL} : SetEnv(key, value)
    \/ \E key \in Keys : UnsetEnv(key)
    \/ Finish
    \/ Cleanup
    \/ CleanupsDone

SpecEnv == InitEnv /\ [][NextEnv]_vars

\* ------------------------------------------------- testutil: Capture

\* A pipe holds at most PipeCap blocks that were written and not yet read
\* (one block stands for 64 KiB / PipeCap bytes of a Linux pipe); a write to
\* a full pipe waits for a reader.
PipeCap == 2
MaxWrite == PipeCap + 1

StreamNames == {"Stdout", "Stderr"}
Blocks == {"a", "b"}
Functions == {"Capture", "CaptureStdout", "CaptureStderr"}

\* what fn does: the blocks it writes, each to os.Stdout or to os.Stderr
RECURSIVE Bodies(_)
Bodies(n) ==
    IF n = 0 THEN {<<>>}
    ELSE Bodies(n - 1) \cup
         {Append(body, <<s, b>>) :
              body \in {x \in Bodies(n - 1) : Len(x) = n - 1},
              s \in StreamNames, b \in Blocks}

\* the write end of the pipe that stands in for a stream, as a file
WriteEnd(s) == IF s = "Stdout" THEN "wOut" ELSE "wErr"
IsWriteEnd(f) == f \in {WriteEnd(s) : s \in StreamNames}
PipeOf(f) == CHOOSE s \in StreamNames : WriteEnd(s) = f

\* the streams a function redirects, in the order it copies them back
Redirected(fn) ==
    IF fn = "Capture" THEN <<"Stdout", "Stderr">>
    ELSE IF fn = "CaptureStdout" THEN <<"Stdout">>
    ELSE <<"Stderr">>
Redirects(fn, s) == \E i \in DOMAIN Redirected(fn) : Redirected(fn)[i] = s

NoText == [Stdout |-> <<>>, Stderr |-> <<>>]

\* the call as it is entered: fn is the function called, body what its
\* argument writes
NewCapture(fn, body) ==
    [fn |-> fn, pc |-> "entry", old |-> os, buf |-> NoText, copying |-> 1,
     body |-> body, wrote |-> NoText, result |-> NoText]

\* old := os.X; r, w, _ := os.Pipe(); os.X = w, for every stream of the
\* function
Redirect ==
    /\ capture.pc = "entry"
    /\ capture' = [capture EXCEPT !.old = os, !.pc = "fn"]
    /\ pipes' = [s \in StreamNames |->
                    IF Redirects(capture.fn, s)
                    THEN [data |-> <<>>, w |-> "open"] ELSE pipes[s]]
    /\ os' = [s \in StreamNames |->
                 IF Redirects(capture.fn, s) THEN WriteEnd(s) ELSE os[s]]
    /\ UNCHANGED notCap

\* testutil.go lines 52-60
Capture == capture.fn = "Capture" /\ Redirect

\* testutil.go lines 81-84
CaptureStdout == capture.fn = "CaptureStdout" /\ Redirect

\* testutil.go lines 97-100
CaptureStderr == capture.fn = "CaptureStderr" /\ Redirect

\* fn writes its next block to the file os.Stdout or os.Stderr is now: a
\* write to a pipe waits while the pipe is full, a write to a file of the
\* process goes through
fnWrite ==
    /\ capture.pc = "fn"
    /\ capture.body # <<>>
    /\ LET s == capture.body[1][1]
           b == capture.body[1][2]
           f == os[s]
       IN /\ IF IsWriteEnd(f)
             THEN /\ pipes[PipeOf(f)].w = "open"
                  /\ Len(pipes[PipeOf(f)].data) < PipeCap
                  /\ pipes' = [pipes EXCEPT ![PipeOf(f)].data = Append(@, b)]
             ELSE pipes' = pipes
          /\ capture' = [capture EXCEPT !.body = Tail(@),
                                        !.wrote[s] = Append(@, b)]
    /\ UNCHANGED <<os, notCap>>

\* fn returns; wOut.Close(); wErr.Close() (lines 62-65, 86-88, 102-104)
fnReturn ==
    /\ capture.pc = "fn"
    /\ capture.body = <<>>
    /\ pipes' = [s \in StreamNames |->
                    IF Redirects(capture.fn, s)
                    THEN [pipes[s] EXCEPT !.w = "closed"] ELSE pipes[s]]
    /\ capture' = [capture EXCEPT !.pc = "copy"]
    /\ UNCHANGED <<os, notCap>>

\* io.Copy reads a block from the pipe into the buffer (lines 68-69, 90, 106)
ioCopyRead ==
    /\ capture.pc = "copy"
    /\ LET s == Redirected(capture.fn)[capture.copying]
       IN /\ pipes[s].data # <<>>
          /\ pipes' = [pipes EXCEPT ![s].data = Tail(@)]
          /\ capture' = [capture EXCEPT !.buf[s] = Append(@, Head(pipes[s].data))]
    /\ UNCHANGED <<os, notCap>>

\* io.Copy returns at the end of file, which a pipe reports once it is empty
\* and its write end is closed
ioCopyEOF ==
    /\ capture.pc = "copy"
    /\ LET s == Redirected(capture.fn)[capture.copying]
       IN /\ pipes[s].data = <<>>
          /\ pipes[s].w = "closed"
          /\ capture' = IF capture.copying < Len(Redirected(capture.fn))
                        THEN [capture EXCEPT !.copying = @ + 1]
                        ELSE [capture EXCEPT !.pc = "restore"]
    /\ UNCHANGED <<os, pipes, notCap>>

\* os.X = oldX for every stream of the function; return the buffers
\* (lines 71-77, 91-93, 107-109)
CaptureReturn ==
    /\ capture.pc = "restore"
    /\ os' = [s \in StreamNames |->
                 IF Redirects(capture.fn, s) THEN capture.old[s] ELSE os[s]]
    /\ capture' = [capture EXCEPT !.pc = "returned", !.result = capture.buf]
    /\ UNCHANGED <<pipes, notCap>>

InitCapture ==
    /\ NoOutput
    /\ NoLoggers
    /\ NoLoader
    /\ args = <<>>
    /\ NoTest
    /\ os \in [StreamNames -> {"/dev/stdout", "/dev/stderr"}]
    /\ pipes = [Stdout |-> NoPipe, Stderr |-> NoPipe]
    /\ \E fn \in Functions, body \in Bodies(MaxWrite) :
           capture = NewCapture(fn, body)

NextCapture ==
    \/ Capture
    \/ CaptureStdout
    \/ CaptureStderr
    \/ fnWrite
    \/ fnReturn
    \/ ioCopyRead
    \/ ioCopyEOF
    \/ CaptureReturn

SpecCapture == InitCapture /\ [][NextCapture]_vars

\* the one goroutine of the call runs whenever it can
FairCapture == SpecCapture /\ WF_vars(NextCapture)

\* ----------------------------------------------------------------- claims

Done == status = "done"

\* the frame at position k is the same formatStruct call before and after
\* the step, and the step ends its work on field i
FieldDone(k) ==
    /\ k <= Len(stack')
    /\ stack[k].fn = "formatStruct"
    /\ stack[k].pc \in {"skip", "field"}
    /\ stack'[k].fn = "formatStruct"
    /\ stack'[k].pc = "loop"
    /\ stack'[k].i = stack[k].i + 1

\* the frame at position k is the same call before and after the step,
\* which takes it from pc to next
Moves(k, fn, pc, next) ==
    /\ k <= Len(stack')
    /\ stack[k].fn = fn /\ stack[k].pc = pc
    /\ stack'[k].fn = fn /\ stack'[k].pc = next

\* the zero / empty value of each shape: empty text, false, 0, a
\* zero-length sequence or mapping, the unset timestamp, the zero
\* duration, a nil reference
ZeroValue(v) ==
    CASE v.kind = "string" -> v.str = <<>>
      [] v.kind = "bool" -> v.bool = FALSE
      [] v.kind \in {"int", "uint", "float"} -> v.num = 0
      [] v.kind = "slice" -> Len(v.elems) = 0
      [] v.kind = "map" -> Len(v.entries) = 0
      [] v.kind = "struct" -> v.special = "time" /\ v.num = 0
      [] v.kind \in {"ptr", "interface"} -> v.elem = <<>>
      [] OTHER -> FALSE

\* C1 Zero-omission: whenever a record, at whatever depth, is done with an
\* exported field whose value is the zero / empty value of its shape, the
\* record's output is what it was before the field: no label, no line.
ZeroOmission ==
    [][\A k \in 1..Len(stack) :
         (/\ FieldDone(k)
          /\ ZeroValue(Field(stack[k].v, stack[k].i)))
         => stack'[k].sb = stack[k].sb]_vars

\* a nested record has rendered its first field and omitted its second,
\* zero-valued one
ZeroOmissionWitness ==
    /\ status = "running"
    /\ stack # <<>>
    /\ Top.fn = "formatStruct"
    /\ Top.pc = "loop"
    /\ Top.depth >= 2
    /\ Top.i = 3
    /\ IsExported(Top.v, 2)
    /\ ZeroValue(Field(Top.v, 2))
    /\ Top.sb # <<>>

\* C2 Termination: every call of Format returns (printLLM comes to its end).
FormatTerminates == <>Done

Max(S) == CHOOSE x \in S : \A y \in S : y <= x

\* v with its pointer and interface layers taken off (NilData when one of
\* them is nil)
RECURSIVE DerefAll(_)
DerefAll(v) ==
    IF IsRef(v) THEN (IF IsNil(v) THEN NilData ELSE DerefAll(Elem(v))) ELSE v

\* a record, a non-empty sequence or a non-empty mapping
IsContainer(v) ==
    /\ v.kind \in {"struct", "slice", "map"}
    /\ v.special = "none"
    /\ v.kind # "struct" => VLen(v) > 0

\* the level, below v, of the deepest record, sequence or mapping of the
\* value tree v (v itself is level 0; -1 when v holds none)
RECURSIVE Nesting(_)
Nesting(v) ==
    LET d == DerefAll(v)
        children ==
            CASE d.kind = "struct" -> {Field(d, i) : i \in 1..NumField(d)}
              [] d.kind = "slice" -> {Index(d, i) : i \in 1..VLen(d)}
              [] d.kind = "map" -> {MapKey(d, e) : e \in 1..VLen(d)}
                                   \cup {MapValue(d, e) : e \in 1..VLen(d)}
              [] OTHER -> {}
    IN IF IsContainer(d) THEN 1 + Max({Nesting(c) : c \in children} \cup {-1})
       ELSE -1

\* C3 as stated: an input whose records, sequences or mappings are nested
\* more than maxDepth levels below the root renders with the marker "...".
DeepInputIsTruncated ==
    (Done /\ cells = NoCells /\ Nesting(root) > maxLLMDepth)
        => Contains(ret, Ellipsis)

\* a record, a non-empty sequence or a non-empty mapping (no special kind)
\* lies more than maxDepth levels below v, itself at level d, on a path of
\* non-nil references where each exported record field, each element of an
\* index-prefixed sequence and each mapping value is one level, and an
\* element of a sequence whose first element is a scalar is none
RECURSIVE ReachedBeyond(_, _)
ReachedBeyond(v, d) ==
    IF IsRef(v) THEN ~IsNil(v) /\ ReachedBeyond(Elem(v), d)
    ELSE IF v.special # "none" \/ v.errmsg # <<>> THEN FALSE
    ELSE CASE v.kind = "struct" ->
                \/ d > maxLLMDepth
                \/ \E i \in 1..NumField(v) :
                     IsExported(v, i) /\ ReachedBeyond(Field(v, i), d + 1)
           [] v.kind = "slice" ->
                /\ VLen(v) > 0
                /\ \/ d > maxLLMDepth
                   \/ \E i \in 1..VLen(v) :
                        ReachedBeyond(Index(v, i),
                            IF isComplexKind(DerefAll(Index(v, 1))) THEN d + 1 ELSE d)
           [] v.kind = "map" ->
                /\ VLen(v) > 0
                /\ \/ d > maxLLMDepth
                   \/ \E e \in 1..VLen(v) : ReachedBeyond(MapValue(v, e), d + 1)
           [] OTHER -> FALSE

\* C3 amended: when a record, non-empty sequence or non-empty mapping is
\* more than maxDepth levels below the root along exported fields, elements
\* and mapping values, the output of Format contains the marker "...".
DepthBoundedness ==
    (Done /\ ReachedBeyond(Resolve(root), 0)) => Contains(ret, Ellipsis)

\* a seven-record chain has been printed with the marker in it
DepthBoundednessWitness ==
    /\ Done
    /\ root = Chain(7, "ptr", Struct(<<F(nValue, Str(tA))>>))
    /\ ReachedBeyond(Resolve(root), 0)
    /\ Contains(ret, Ellipsis)
    /\ written = <<ret>>

\* every field of the record v is the zero value of its shape
AllZeroRecord(v) ==
    /\ v.kind = "struct"
    /\ v.special = "none"
    /\ v.errmsg = <<>>
    /\ \A i \in 1..NumField(v) : ZeroValue(Field(v, i))

\* C4 Nil/empty root: Format of nil and of a record whose fields are all
\* zero-valued is the empty string, and Print in llm mode then writes
\* nothing and returns no error.
NilOrEmptyRoot ==
    (Done /\ (root = NilData \/ root = NilPtr \/ AllZeroRecord(Resolve(root))))
        => (ret = <<>> /\ written = <<>> /\ err = "nil")

\* a record of three zero-valued fields has been printed
NilOrEmptyRootWitness ==
    /\ Done
    /\ AllZeroRecord(Resolve(root))
    /\ NumField(Resolve(root)) = 3
    /\ written = <<>>

HasLineBreak(s) == \E j \in DOMAIN s : s[j] = NL
Spaces(n) == [j \in 1..n |-> SP]

tOuterRendered ==
    fieldNameToLabel(nName) \o <<":", SP>> \o tOuter \o <<NL>>
    \o fieldNameToLabel(nInner) \o <<":", NL>>
    \o <<SP, SP>> \o fieldNameToLabel(nValue) \o <<":", SP>> \o tInnerValue \o <<NL>>

\* C5 Record field shape: a record at depth d, done with a field whose
\* rendering r has come back, has appended nothing when r is empty, the one
\* line `LABEL: r` (after 2*d spaces) when r has no line break, and the
\* line `LABEL:` followed by r when it has one; and the record
\* {Name:"outer", Inner:{Value:"inner-value"}} renders as
\* "NAME: outer\nINNER:\n  VALUE: inner-value\n".
RecordFieldShape ==
    /\ [][\A k \in 1..Len(stack) :
            (FieldDone(k) /\ stack[k].pc = "field") =>
                LET f == stack[k]
                    line == Spaces(2 * f.depth) \o fieldNameToLabel(FieldName(f.v, f.i))
                IN stack'[k].sb =
                     f.sb \o (IF ret = <<>> THEN <<>>
                              ELSE IF HasLineBreak(ret) THEN line \o <<":", NL>> \o ret
                              ELSE line \o <<":", SP>> \o ret \o <<NL>>)]_vars
    /\ [](Done /\ root = Struct(<<F(nName, Str(tOuter)),
                                 F(nInner, Struct(<<F(nValue, Str(tInnerValue))>>))>>)
            => ret = tOuterRendered)

\* the record of the example has been printed, both shapes in it
RecordFieldShapeWitness ==
    /\ Done
    /\ root = Struct(<<F(nName, Str(tOuter)),
                       F(nInner, Struct(<<F(nValue, Str(tInnerValue))>>))>>)
    /\ written = <<tOuterRendered>>

\* the rendering of a scalar element of a sequence
IsScalar(v) ==
    /\ v.kind \in {"string", "bool", "int", "uint", "float"}
    /\ v.errmsg = <<>>
ElemText(e) ==
    LET d == DerefAll(e) IN
    IF d = NilData THEN <<>>
    ELSE IF d.special = "duration" THEN (IF d.num = 0 THEN <<>> ELSE d.str)
    ELSE formatScalar(d)
AllScalars(v) ==
    /\ v.kind = "slice" /\ v.special = "none" /\ VLen(v) > 0
    /\ \A i \in 1..VLen(v) : IsScalar(DerefAll(Index(v, i)))
NonEmptyTexts(v) ==
    SelectSeq([i \in 1..VLen(v) |-> ElemText(Index(v, i))], LAMBDA t : t # <<>>)
RECURSIVE SumLen(_)
SumLen(ts) == IF ts = <<>> THEN 0 ELSE Len(ts[1]) + SumLen(Tail(ts))

\* the call of formatSlice on top of the stack returns in this step
SliceReturns ==
    /\ status = "running" /\ stack # <<>>
    /\ Top.fn = "formatSlice"
    /\ Len(stack') = Len(stack) - 1

\* the first element of the non-empty sequence v is a scalar
FirstIsScalar(v) == VLen(v) > 0 /\ ~isComplexKind(DerefAll(Index(v, 1)))

\* r is the texts ts joined by " | ": n texts, n-1 separators
JoinedByPipe(ts, r) ==
    /\ r = Join(ts, <<SP, "|", SP>>)
    /\ Len(r) = SumLen(ts) + 3 * (IF Len(ts) = 0 THEN 0 ELSE Len(ts) - 1)
    /\ (Len(ts) = 0 => r = <<>>)

\* What a sequence whose first element is a scalar does in a step, when it
\* is formatted at a depth of at most limit: done with an element whose
\* rendering has come back, it has kept that rendering, after the earlier
\* ones, unless it is empty; and it returns the renderings kept joined by
\* " | ", which for a sequence of scalars are its non-empty element texts
\* and make one line when none of them has a line break.
PrimitiveJoinUpTo(limit) ==
    /\ \A k \in 1..Len(stack) :
         Moves(k, "formatSlice", "primitive", "primitives")
           => stack'[k].items =
                stack[k].items \o (IF ret = <<>> THEN <<>> ELSE <<ret>>)
    /\ (SliceReturns /\ FirstIsScalar(Top.v) /\ Top.depth <= limit)
         => /\ JoinedByPipe(Top.items, ret')
            /\ Top.i = VLen(Top.v) + 1
            /\ AllScalars(Top.v)
                 => /\ Top.items = NonEmptyTexts(Top.v)
                    /\ (\A j \in 1..Len(Top.items) : ~HasLineBreak(Top.items[j]))
                         => ~HasLineBreak(ret')

\* C6 as stated: a sequence whose first element is a scalar renders as the
\* renderings of its elements, in order, the empty ones dropped and the
\* others joined by " | ", wherever it is formatted.
PrimitiveJoinAnywhere == [][PrimitiveJoinUpTo(maxLLMDepth + 2)]_vars

\* C6 amended: a sequence whose first element is a scalar and that is
\* formatted at a depth of at most maxDepth renders as the renderings of
\* its elements, in order, the empty ones dropped and the others joined by
\* " | " (n of them give n-1 separators, none gives the empty string); it
\* is one line when its elements are scalars without line breaks.
PrimitiveJoin == [][PrimitiveJoinUpTo(maxLLMDepth)]_vars

\* the sequence ["", "a", "", "b"] has rendered as "a | b"
PrimitiveJoinWitness ==
    /\ Done
    /\ root = Slice(<<Str(<<>>), Str(tA), Str(<<>>), Str(tB)>>)
    /\ ret = <<"a", SP, "|", SP, "b">>

HexVal(c) == (CHOOSE k \in DOMAIN HexDigits : HexDigits[k] = c) - 1
Min(a, b) == IF a <= b THEN a ELSE b

\* r is the rendering the byte-sequence policy gives the bytes b
BytesRendered(b, r) ==
    LET n == Len(b)
        shown == Min(n, 32)
        suffix == IF n > 32
                  THEN <<".", ".", ".", "(">> \o Itoa(n) \o <<SP, "b", "y", "t", "e", "s", ")">>
                  ELSE <<>>
    IN /\ Len(r) = 2 * shown + Len(suffix)
       /\ \A k \in 1..shown :
            /\ r[2 * k - 1] \in Range(HexDigits)
            /\ r[2 * k] \in Range(HexDigits)
            /\ 16 * HexVal(r[2 * k - 1]) + HexVal(r[2 * k]) = b[k]
       /\ SubSeq(r, 2 * shown + 1, Len(r)) = suffix

\* the call on top of the stack returns in this step
TopReturns ==
    /\ status = "running" /\ stack # <<>>
    /\ Len(stack') = Len(stack) - 1

\* C7 Byte-sequence policy: a []byte, wherever it is formatted, renders as
\* empty when its length is 0, as the hexadecimal of all its bytes when
\* its length is 1..32, and as the hexadecimal of its first 32 bytes
\* followed by "...(N bytes)", N its length, when longer.
ByteSequencePolicy ==
    [][(TopReturns /\ Top.fn = "formatValue" /\ Top.v.special = "bytes")
            => BytesRendered(Top.v.elems, ret')]_vars

\* byte sequences of 32 and of 33 bytes have been printed
ByteSequencePolicyWitness ==
    /\ Done
    /\ root \in {Bytes(ByteSeq(32)), Bytes(ByteSeq(33))}
    /\ Len(ret) = IF VLen(root) = 32 THEN 64 ELSE 77
    /\ written = <<ret>>

tTrue == <<"t", "r", "u", "e">>
IsFalse(v) == LET d == DerefAll(v) IN d.kind = "bool" /\ d.bool = FALSE /\ d.errmsg = <<>>

\* C8 Boolean asymmetry: a boolean formatted anywhere returns "true" when
\* true and the empty string when false; a record done with a false field,
\* a sequence done with a false element and a mapping done with an entry
\* whose value is false have appended nothing.
BooleanAsymmetry ==
    [][/\ (TopReturns /\ Top.fn = "formatValue" /\ Top.v.kind = "bool"
             /\ Top.v.errmsg = <<>>)
          => ret' = (IF Top.v.bool THEN tTrue ELSE <<>>)
       /\ \A k \in 1..Len(stack) :
            /\ (FieldDone(k) /\ IsFalse(Field(stack[k].v, stack[k].i)))
                 => stack'[k].sb = stack[k].sb
            /\ (Moves(k, "formatSlice", "primitive", "primitives")
                  /\ IsFalse(Index(stack[k].v, stack[k].i)))
                 => stack'[k].items = stack[k].items
            /\ (Moves(k, "formatSlice", "item", "items")
                  /\ IsFalse(Index(stack[k].v, stack[k].i)))
                 => stack'[k].sb = stack[k].sb
            /\ (Moves(k, "formatMap", "value", "range")
                  /\ IsFalse(MapValue(stack[k].v, stack[k].cur)))
                 => stack'[k].sb = stack[k].sb]_vars

\* the sequence [true, false, true] has rendered as "true | true"
BooleanAsymmetryWitness ==
    /\ Done
    /\ root = Slice(<<Bool(TRUE), Bool(FALSE), Bool(TRUE)>>)
    /\ ret = tTrue \o <<SP, "|", SP>> \o tTrue

Labelled == status = "label"
UpperCased(s) == [k \in DOMAIN s |-> ToUpper(s[k])]

\* the identifier nm is k >= 2 capitals followed by lower-case letters only
AcronymThenWord(nm, k) ==
    /\ k >= 2 /\ k < Len(nm)
    /\ \A j \in 1..k : IsUpper(nm[j])
    /\ \A j \in (k + 1)..Len(nm) : IsLower(nm[j])

\* the identifier nm ends with the capitals at j..Len(nm), no capital
\* before them
TrailingCapitals(nm, j) ==
    /\ j \in 1..Len(nm)
    /\ \A i \in j..Len(nm) : IsUpper(nm[i])
    /\ j > 1 => ~IsUpper(nm[j - 1])

\* C9 fieldNameToLabel gives NAME, FIELD_NAME, HTTP_STATUS, ID, URL_PATH
\* and XML_PARSER for Name, FieldName, HTTPStatus, ID, URLPath and
\* XMLParser; an acronym followed by a capitalised word is split before
\* the acronym's last capital, and a trailing run of capitals is kept whole.
LabelExamples ==
    Labelled =>
        /\ name = nName => label = <<"N", "A", "M", "E">>
        /\ name = nFieldName => label = <<"F", "I", "E", "L", "D", "_", "N", "A", "M", "E">>
        /\ name = nHTTPStatus
             => label = <<"H", "T", "T", "P", "_", "S", "T", "A", "T", "U", "S">>
        /\ name = nID => label = <<"I", "D">>
        /\ name = nURLPath => label = <<"U", "R", "L", "_", "P", "A", "T", "H">>
        /\ name = nXMLParser
             => label = <<"X", "M", "L", "_", "P", "A", "R", "S", "E", "R">>
        /\ \A k \in 1..Len(name) :
             AcronymThenWord(name, k)
               => label = SubSeq(name, 1, k - 1) \o <<"_">>
                            \o UpperCased(SubSeq(name, k, Len(name)))
        /\ \A j \in 1..Len(name) :
             TrailingCapitals(name, j)
               => SubSeq(label, Len(label) - (Len(name) - j), Len(label))
                    = SubSeq(name, j, Len(name))

\* HTTPStatus has been converted, and so has an identifier ending in a run
\* of capitals
LabelExamplesWitness ==
    /\ Labelled
    /\ \/ name = nHTTPStatus /\ label = <<"H", "T", "T", "P", "_", "S", "T", "A", "T", "U", "S">>
       \/ name = <<"a", "A", "B">> /\ label = <<"A", "_", "A", "B">>

\* C10 Errors: an error value that is present renders as its message,
\* whatever its shape, as the root value and as a record field.
ErrorRendersMessage ==
    Done =>
        /\ root.errmsg # <<>> => ret = root.errmsg[1]
        /\ \A e \in {ErrorsNew(tBoom), ValueError(tBoom)} :
             root = Struct(<<F(nErr, Iface(e))>>)
               => ret = fieldNameToLabel(nErr) \o <<":", SP>> \o tBoom \o <<NL>>

\* ------------------------------------------------------ format selection

\* s and t are the same token up to the case of their letters
SameUpToCase(s, t) ==
    /\ Len(s) = Len(t)
    /\ \A k \in DOMAIN s : ToUpper(s[k]) = ToUpper(t[k])

\* the print function the token handed to SetFormat asks for
Selected(f) ==
    IF SameUpToCase(f, fLlm) THEN "printLLM"
    ELSE IF SameUpToCase(f, fJson) THEN "printJSON"
    ELSE IF SameUpToCase(f, fYaml) \/ SameUpToCase(f, fYml) THEN "printYAML"
    ELSE "printText"

EncoderOf(fn) ==
    CASE fn = "printJSON" -> "json"
      [] fn = "printYAML" -> "yaml"
      [] fn = "printText" -> "fmt.Fprintln"
      [] OTHER -> "none"

\* C11: after SetFormat(f), Print hands the data to the LLM rendering iff f
\* is "llm" up to case, to the json encoder iff f is "json" up to case, to
\* the yaml encoder iff f is "yaml" or "yml" up to case, and to plain-text
\* printing for every other token; the formatter's output is written only in
\* the first case and each encoder is called, on the Output's writer, only in
\* its own case.  A step that sets the format leaves the writer unchanged and
\* a step that sets the writer leaves the format unchanged.
FormatSelection ==
    [][ /\ (token' # token \/ o'.format # o.format) => o'.writer = o.writer
        /\ o'.writer # o.writer => o'.format = o.format /\ token' = token
        /\ (status = "idle" /\ status' # "idle") =>
              status' = (IF Selected(token) = "printLLM" THEN "start"
                         ELSE Selected(token))
        /\ printLLM => Selected(token) = "printLLM"
        /\ written' # written => Selected(token) = "printLLM"
        /\ encoded' # encoded =>
              /\ encoded' = Append(encoded, [encoder |-> EncoderOf(Selected(token)),
                                             writer |-> o.writer, data |-> root])
              /\ Selected(token) # "printLLM" ]_vars

\* Print after SetFormat("LLM") has written the compact rendering
FormatSelectionWitness ==
    /\ token = <<"L", "L", "M">>
    /\ status = "done"
    /\ written = <<<<"N", "A", "M", "E", ":", SP, "t", "e", "s", "t", NL>>>>

\* ---------------------------------------------------------------- purity

\* a mapping of two or more entries is held by v, at most n values down
RECURSIVE WideMapWithin(_, _)
WideMapWithin(v, n) ==
    /\ n > 0
    /\ IF IsRef(v) THEN ~IsNil(v) /\ WideMapWithin(Elem(v), n - 1)
       ELSE IF v.special # "none" THEN FALSE
       ELSE CASE v.kind = "struct" ->
                   \E i \in 1..NumField(v) : WideMapWithin(Field(v, i), n - 1)
              [] v.kind = "slice" ->
                   \E i \in 1..VLen(v) : WideMapWithin(Index(v, i), n - 1)
              [] v.kind = "map" ->
                   \/ VLen(v) >= 2
                   \/ \E e \in 1..VLen(v) :
                         \/ WideMapWithin(MapKey(v, e), n - 1)
                         \/ WideMapWithin(MapValue(v, e), n - 1)
              [] OTHER -> FALSE
HoldsWideMap(v) == WideMapWithin(v, 4 * MaxChain + 8)

Returned == status = "return" /\ earlier # <<>>

\* C12 as stated: two calls of format on the same value return the same
\* string.
FormatIsPure == Returned => ret = earlier[1]

\* C12: two calls of format on the same value, one that holds no mapping of
\* two or more entries, return the same string; each call starts from an
\* empty call stack.
FormatIsPureWithoutWideMaps ==
    /\ (Returned /\ ~HoldsWideMap(Resolve(root))) => ret = earlier[1]
    /\ status \in {"format", "return"} => stack = <<>>

\* the record of the example was formatted twice
FormatIsPureWitness ==
    /\ Returned
    /\ ret = tOuterRendered
    /\ earlier = <<tOuterRendered>>

\* ---------------------------------------------------------------- logger

\* goroutine p enters a log call, ends one that writes, ends one that does not
Enters(p) == procs[p].pc = "idle" /\ procs'[p].pc # "idle"
Writes(p) == procs[p].pc = "write" /\ procs'[p].pc = "idle"
Skips(p) == procs[p].pc = "return" /\ procs'[p].pc = "idle"

\* exactly one line, ln, is appended to the writer w and nothing is written
\* to any other writer
OneLineTo(w, ln) ==
    /\ outs'[w] = Append(outs[w], ln)
    /\ \A x \in DOMAIN outs : x # w => outs'[x] = outs[x]

\* C13: a new logger is at level Info; a log call at level L gets to its
\* write iff L is at least the level the logger has when the call is made
\* (Debug < Info < Warn < Error); the write appends exactly one line, of
\* level L, to the logger's output of that moment; a filtered call and the
\* setters write nothing; SetLevel(X) makes X the level that later calls are
\* compared with.
LevelFiltering ==
    /\ loggers[1].level = LevelInfo
    /\ [][ /\ \A p \in DOMAIN procs :
                /\ Enters(p) =>
                      (procs'[p].pc = "write"
                          <=> procs'[p].level >= loggers[procs'[p].l].level)
                /\ Writes(p) =>
                      /\ OneLineTo(loggers[procs[p].l].out, procs[p].line)
                      /\ procs[p].line.level = LevelString(procs[p].level)
                      /\ procs[p].line.name = loggers[procs[p].l].name
                /\ Skips(p) => outs' = outs
           /\ outs' # outs => \E p \in DOMAIN procs : Writes(p)
           /\ \A p \in DOMAIN procs, level \in LogLevels :
                 SetLevel(p, 1, level) => loggers'[1].level = level ]_vars

\* a Warn call on a logger at level Warn is at its write
LevelFilteringWitness ==
    /\ loggers[1].level = LevelWarn
    /\ procs["g1"].pc = "write"
    /\ procs["g1"].level = LevelWarn
    /\ procs["g1"].line.level = "WARN"

\* what SetLevel and SetOutput set
Settings(lg) == <<lg.level, lg.out>>

\* the line ln holds k=v for every entry of the context ctx
HoldsContext(ln, ctx) ==
    \A k \in DOMAIN ctx : \E i \in DOMAIN ln.context : ln.context[i] = <<k, ctx[k]>>

\* C14: WithContext(k, v) makes a new logger whose context is the
\* receiver's plus k=v and whose name, level and output are the receiver's
\* of that moment, and changes no logger there was; the lines a logger writes
\* hold every k=v of its context; no step changes the name or the context of
\* a logger, and no step changes the level or the output of two loggers.
ContextIsCopied ==
    [][ /\ Len(loggers') > Len(loggers) =>
              /\ Len(loggers') = Len(loggers) + 1
              /\ \A i \in DOMAIN loggers : loggers'[i] = loggers[i]
              /\ \E l \in DOMAIN loggers, key \in ContextKeys, value \in ContextValues :
                    LET n == loggers'[Len(loggers')]
                        ctx == loggers[l].context
                    IN /\ DOMAIN n.context = DOMAIN ctx \cup {key}
                       /\ n.context[key] = value
                       /\ \A k \in DOMAIN ctx \ {key} : n.context[k] = ctx[k]
                       /\ n.name = loggers[l].name
                       /\ Settings(n) = Settings(loggers[l])
                       /\ n.mu = "free"
        /\ \A i \in DOMAIN loggers :
              /\ loggers'[i].context = loggers[i].context
              /\ loggers'[i].name = loggers[i].name
        /\ \A i, j \in DOMAIN loggers :
              (i # j /\ Settings(loggers'[i]) # Settings(loggers[i]))
                  => Settings(loggers'[j]) = Settings(loggers[j])
        /\ \A p \in DOMAIN procs :
              Writes(p) =>
                  /\ OneLineTo(loggers[procs[p].l].out, procs[p].line)
                  /\ HoldsContext(procs[p].line, loggers[procs[p].l].context)
                  /\ Len(procs[p].line.context)
                        = Cardinality(DOMAIN loggers[procs[p].l].context) ]_vars

\* a logger derived from a derived logger has written a line with both
\* entries to the writer it was given, while the first logger has no context
\* and the level and the output New gave it
ContextIsCopiedWitness ==
    /\ Len(loggers) = 3
    /\ loggers[1].context = <<>>
    /\ Settings(loggers[1]) = <<LevelInfo, "os.Stdout">>
    /\ DOMAIN loggers[3].context = ContextKeys
    /\ loggers[3].out = "buf"
    /\ Len(outs["buf"]) = 1
    /\ HoldsContext(outs["buf"][1], loggers[3].context)

\* ---------------------------------------------------------------- Loader

Exists(path) == files[path] # "missing"
NoneExists == \A j \in DOMAIN loader.paths : ~Exists(loader.paths[j])

\* k is the position of the first path of the search list that exists
IsFirstExisting(k) ==
    /\ k \in DOMAIN loader.paths
    /\ Exists(loader.paths[k])
    /\ \A j \in 1..(k - 1) : ~Exists(loader.paths[j])

\* C15: Load reads the first path of the search list that exists, and
\* FindConfigFile returns that path; neither calls os.Stat on a later path;
\* when no path of the list exists Load returns an error, having read
\* nothing, and FindConfigFile returns ("", false).  WithPaths sets the
\* search list, AddPath appends to it, PrependPath puts a path at its front,
\* and no other call changes it.
FirstExistingPath ==
    [][ /\ returned'.op = "Load" =>
              IF NoneExists
              THEN /\ returned'.err # "nil"
                   /\ returned'.read = <<>>
                   /\ returned'.probed = loader.paths
              ELSE \E k \in DOMAIN loader.paths :
                      /\ IsFirstExisting(k)
                      /\ returned'.read = <<loader.paths[k]>>
                      /\ returned'.probed = SubSeq(loader.paths, 1, k)
        /\ returned'.op = "FindConfigFile" =>
              IF NoneExists
              THEN /\ returned'.path = ""
                   /\ returned'.found = FALSE
              ELSE \E k \in DOMAIN loader.paths :
                      /\ IsFirstExisting(k)
                      /\ returned'.path = loader.paths[k]
                      /\ returned'.found = TRUE
                      /\ returned'.probed = SubSeq(loader.paths, 1, k)
        /\ returned'.op = "WithPaths" => loader'.paths \in CustomLists
        /\ returned'.op = "AddPath" =>
              \E path \in CustomPaths : loader'.paths = Append(loader.paths, path)
        /\ returned'.op = "PrependPath" =>
              \E path \in CustomPaths : loader'.paths = <<path>> \o loader.paths
        /\ returned'.op \notin {"WithPaths", "AddPath", "PrependPath"} =>
              loader' = loader ]_vars

\* Load has read the second path, the first being missing, and a later path
\* of the list exists as well
FirstExistingPathWitness ==
    /\ returned.op = "Load"
    /\ Len(loader.paths) >= 3
    /\ ~Exists(loader.paths[1])
    /\ returned.read = <<loader.paths[2]>>
    /\ returned.err = "nil"
    /\ Exists(loader.paths[3])
    /\ loader.paths[3] # loader.paths[2]

\* the error LoadFrom returns for what is at path
ErrorFor(path) ==
    CASE files[path] = "valid" -> "nil"
      [] files[path] = "invalid" -> "failed to parse config file"
      [] OTHER -> "failed to read config file"

\* C16: when no path of the search list exists LoadOrDefault returns a nil
\* error and leaves dst as the caller initialised it, where Load returns an
\* error; when some path exists LoadOrDefault and Load alike read the first
\* such path and return the error of reading and parsing it (dst is untouched
\* when the path cannot be read and is what the file holds when it parses).
LoadOrDefaultKeepsDefaults ==
    [][ returned'.op \in {"Load", "LoadOrDefault"} =>
           IF NoneExists
           THEN /\ returned'.read = <<>>
                /\ returned'.dst = returned'.arg[1]
                /\ returned'.op = "LoadOrDefault" => returned'.err = "nil"
                /\ returned'.op = "Load" => returned'.err # "nil"
           ELSE \E k \in DOMAIN loader.paths :
                   /\ IsFirstExisting(k)
                   /\ returned'.read = <<loader.paths[k]>>
                   /\ returned'.err = ErrorFor(loader.paths[k])
                   /\ files[loader.paths[k]] = "unreadable"
                         => returned'.dst = returned'.arg[1]
                   /\ files[loader.paths[k]] = "valid"
                         => returned'.dst = [name |-> loader.paths[k], port |-> 8080] ]_vars

\* LoadOrDefault has returned nil and the defaults for a search list of two
\* missing paths
LoadOrDefaultKeepsDefaultsWitness ==
    /\ returned.op = "LoadOrDefault"
    /\ Len(loader.paths) = 2
    /\ NoneExists
    /\ returned.err = "nil"
    /\ returned.dst = [name |-> "default-name", port |-> 3000]

\* ------------------------------------------------------------ errors.Wrap

\* C17: Wrap(err, target) is target when err is nil, err when target is nil
\* (nil when both are), and otherwise a new error that Is matches against err
\* and against target; WrapWithMessage and WrapOp return nil for a nil error
\* and otherwise a new error that Is matches against the wrapped error.
WrapContract ==
    LET r == returned.value
    IN /\ returned.op = "Wrap" =>
             /\ args.err = NilError => r = args.target
             /\ args.target = NilError => r = args.err
             /\ (args.err # NilError /\ args.target # NilError) =>
                   /\ r # NilError
                   /\ r.id \notin {args.err.id, args.target.id}
                   /\ Is(r, args.err)
                   /\ Is(r, args.target)
       /\ returned.op \in {"WrapWithMessage", "WrapOp"} =>
             /\ args.err = NilError => r = NilError
             /\ args.err # NilError =>
                   /\ r # NilError
                   /\ r.id # args.err.id
                   /\ Is(r, args.err)

\* Wrap was called on two errors of the same text that are not the same error
WrapContractWitness ==
    /\ returned.op = "Wrap"
    /\ args.err = NewError("inner", "test error")
    /\ args.target = NewError("outer", "test error")
    /\ returned.value.unwrap = <<args.target, args.err>>

\* -------------------------------------------------------- version.Info.Full

\* C18: Full returns Version, "-" and the first 7 characters of GitCommit if
\* and only if GitCommit is not empty, is not "unknown" and has at least 7
\* characters; otherwise it returns exactly Version, so a commit of 6
\* characters or fewer is never appended.
FullAppendsCommit ==
    returned.op = "Full" =>
        LET c == args.GitCommit
            long == args.Version \o <<"-">> \o
                        [k \in 1..7 |-> IF k <= Len(c) THEN c[k] ELSE "?"]
            appends == c # <<>> /\ c # unknown /\ Len(c) >= 7
        IN /\ returned.value = long <=> appends
           /\ ~appends => returned.value = args.Version
           /\ Len(c) <= 6 => returned.value = args.Version
           /\ Len(returned.value) \in {Len(args.Version), Len(args.Version) + 8}

\* Full was called with a commit of exactly 7 characters that is appended,
\* which "unknown", of 7 characters too, is not
FullAppendsCommitWitness ==
    /\ returned.op = "Full"
    /\ Len(args.GitCommit) = 7
    /\ args.GitCommit # unknown
    /\ returned.value = args.Version \o <<"-">> \o args.GitCommit

\* ------------------------------------------------- testutil.SetEnv, UnsetEnv

\* C19: whatever SetEnv and UnsetEnv calls a test makes, once its cleanups
\* have run, last registered first, every variable is as it was before the
\* first call: of the same value if it existed, not set if it did not.
EnvRestored ==
    test.state = "done" =>
        \A key \in DOMAIN env :
            /\ env[key].existed = test.environ[key].existed
            /\ env[key].old = test.environ[key].old

\* a test that began with a variable set to the empty string, called both
\* SetEnv and UnsetEnv and has run its three cleanups
EnvRestoredWitness ==
    /\ test.state = "done"
    /\ \E key \in DOMAIN env : test.environ[key] = IsSet("")
    /\ Len(test.calls) = 3
    /\ {test.calls[k] : k \in DOMAIN test.calls} = {"SetEnv", "UnsetEnv"}

\* ---------------------------------------------------------------- label rule

\* the rule as stated: position i (1-based, so i > 1) holds an uppercase
\* letter that follows a lowercase letter, or follows an uppercase letter
\* and precedes a lowercase one
StatedUnderscore(nm, i) ==
    /\ i > 1
    /\ IsUpper(nm[i])
    /\ \/ IsLower(nm[i - 1])
       \/ /\ IsUpper(nm[i - 1])
          /\ i < Len(nm)
          /\ IsLower(nm[i + 1])

\* the rule with any character that is not a lowercase letter in the place
\* of the uppercase predecessor
AmendedUnderscore(nm, i) ==
    /\ i > 1
    /\ IsUpper(nm[i])
    /\ \/ IsLower(nm[i - 1])
       \/ /\ ~IsLower(nm[i - 1])
          /\ i < Len(nm)
          /\ IsLower(nm[i + 1])

\* lbl is nm upper-cased with an underscore before exactly the positions
\* that Underscore picks
LabelFollows(nm, lbl, Underscore(_, _)) ==
    LET At0(i) == i + Cardinality({j \in 1..i : Underscore(nm, j)})
    IN /\ Len(lbl) = At0(Len(nm))
       /\ \A i \in 1..Len(nm) :
            /\ lbl[At0(i)] = ToUpper(nm[i])
            /\ Underscore(nm, i) => lbl[At0(i) - 1] = "_"

\* C20 as stated: an underscore goes before the character at position i > 0
\* if and only if it is an uppercase letter and the previous character is a
\* lowercase letter, or an uppercase letter with a lowercase letter next;
\* after a digit none is inserted.
LabelRuleAsStated ==
    Labelled => LabelFollows(name, label, StatedUnderscore)

\* C20 amended: an underscore goes before the character at position i > 0 if
\* and only if it is an uppercase letter and the previous character is a
\* lowercase letter, or is not one (an uppercase letter, a digit, another
\* non-letter) while the next character is a lowercase letter; every
\* character is upper-cased.
LabelRule ==
    Labelled => LabelFollows(name, label, AmendedUnderscore)

\* an identifier with a capital between a digit and a lowercase letter has
\* been converted, the underscore going after the digit
LabelRuleWitness ==
    /\ Labelled
    /\ name = nV2Beta
    /\ label = <<"V", "2", "_", "B", "E", "T", "A">>

\* --------------------------------------------------- indentation and lines

\* the call that called the one on top of the stack
Caller == stack[Len(stack) - 1]

\* the call on top of the stack returns to a record, an index-prefixed
\* sequence or a mapping, which will put what it returns below a label, an
\* index or a key: r is then the block rendered for the value
ReturnsBlock(r) ==
    /\ TopReturns
    /\ Len(stack) >= 2
    /\ \/ Caller.pc = "field" /\ HasLineBreak(r)
       \/ Caller.pc = "item" /\ r # <<>>
       \/ Caller.pc = "value" /\ HasLineBreak(r)

\* a line of r begins at position j
LineStart(r, j) == j \in 1..Len(r) /\ (j = 1 \/ r[j - 1] = NL)

\* every line of r starts with n spaces, and its first line with no more
IndentedBy(r, n) ==
    /\ \A j \in 1..Len(r) :
         LineStart(r, j) => \A k \in 0..(n - 1) : j + k <= Len(r) /\ r[j + k] = SP
    /\ n + 1 <= Len(r) /\ r[n + 1] # SP

\* C21 Uniform indentation: every line of the block rendered for a value at
\* depth d starts with 2*d spaces, its first line with exactly 2*d, whether
\* the block goes below a record's label, a sequence's index or a mapping's
\* key, and whatever the value is (a sequence of scalars and a timestamp
\* included).
UniformIndentation ==
    [][ReturnsBlock(ret') => IndentedBy(ret', 2 * Top.depth)]_vars

\* a record, an index-prefixed sequence or a mapping returns what it built
ReturnsBuilt ==
    /\ TopReturns
    /\ \/ Top.fn = "formatStruct" /\ Top.pc = "loop"
       \/ Top.fn = "formatSlice" /\ Top.pc = "items"
       \/ Top.fn = "formatMap" /\ Top.pc = "range"

\* C22 Line termination: in what a record, an index-prefixed sequence or a
\* mapping renders, every line is followed by a newline: the rendering, when
\* it is not empty, ends with one, so that the label or index that comes next
\* starts a line of its own.
LineTermination ==
    [][(ReturnsBuilt /\ ret' # <<>>) => ret'[Len(ret')] = NL]_vars

\* --------------------------------------------------------------- depth guard

\* the call at position k of the stack is past its guard: it visits the
\* fields, elements or entries of its value and writes labels or index lines
Visiting(k) ==
    /\ stack[k].fn \in {"formatStruct", "formatSlice", "formatMap"}
    /\ stack[k].pc # "entry"

\* C23 Depth guard: a record, a non-empty sequence or a non-empty mapping
\* reached at a depth greater than maxDepth returns "..." at once, none of
\* its fields, elements or entries being visited; no value is ever formatted
\* at a depth greater than maxDepth + 1, and no call that writes labels or
\* index lines runs at a depth greater than maxDepth, so none of them is
\* indented by more than 2 * maxDepth spaces.
DepthGuard ==
    /\ [][(/\ status = "running" /\ stack # <<>>
           /\ Top.fn \in {"formatStruct", "formatSlice", "formatMap"}
           /\ Top.pc = "entry"
           /\ IsContainer(Top.v)
           /\ Top.depth > maxLLMDepth)
            => (TopReturns /\ ret' = Ellipsis)]_vars
    /\ [](\A k \in 1..Len(stack) :
            /\ stack[k].depth <= maxLLMDepth + 1
            /\ Visiting(k) => /\ stack[k].depth <= maxLLMDepth
                              /\ Len(indent(stack[k].depth)) <= 2 * maxLLMDepth)

\* a mapping reached at depth maxDepth + 1, as a field of a record at depth
\* maxDepth, has returned the marker
DepthGuardWitness ==
    /\ status = "running"
    /\ stack # <<>>
    /\ Top.fn = "formatStruct"
    /\ Top.pc = "field"
    /\ Top.depth = maxLLMDepth
    /\ Field(Top.v, Top.i).kind = "map"
    /\ VLen(Field(Top.v, Top.i)) > 0
    /\ ret = Ellipsis

\* ------------------------------------------------- self-referential record

\* how many times sub occurs in r
Occurrences(r, sub) ==
    Cardinality({k \in 0..(Len(r) - Len(sub)) : SubSeq(r, k + 1, k + Len(sub)) = sub})

\* type Deep struct{Level int; Next *Deep}; d := &Deep{Level: 1}; d.Next = d
SelfReferential ==
    /\ root = Ptr(CellRef(1))
    /\ cells = <<Struct(<<F(nLevel, IntV(1)), F(nNext, Ptr(CellRef(1)))>>)>>

tLevelLine == fieldNameToLabel(nLevel) \o <<":", SP, "1", NL>>
tNextCut == fieldNameToLabel(nNext) \o <<":", SP>> \o Ellipsis \o <<NL>>

\* the output renders the record's fields n times, then the marker once, as
\* its last line
RenderedTimes(n) ==
    /\ Occurrences(ret, tLevelLine) = n
    /\ Occurrences(ret, fieldNameToLabel(nNext) \o <<":">>) = n
    /\ Occurrences(ret, Ellipsis) = 1
    /\ SubSeq(ret, Len(ret) - Len(tNextCut) + 1, Len(ret)) = tNextCut

\* C24 as stated: a self-referential record, rendered from depth 0 with
\* maxDepth = 5, has its fields rendered exactly maxDepth times before the
\* marker "..." is emitted.
CycleRenderedMaxDepthTimes ==
    (Done /\ SelfReferential) => RenderedTimes(maxLLMDepth)

\* C24 amended: a self-referential record, rendered from depth 0 with
\* maxDepth = 5, has its fields rendered exactly maxDepth + 1 times (at the
\* depths 0 to maxDepth) before the marker "..." is emitted.
CycleRenderedAtEachDepth ==
    (Done /\ SelfReferential) => RenderedTimes(maxLLMDepth + 1)

\* the self-referential record has been printed, six times over
CycleRenderedAtEachDepthWitness ==
    /\ Done
    /\ SelfReferential
    /\ Occurrences(ret, tLevelLine) = 6
    /\ written = <<ret>>

\* ------------------------------------------------------ fully empty record

\* a record whose exported fields all hold the zero / empty value of their
\* shape
FullyEmpty(v) ==
    /\ v.kind = "struct"
    /\ v.special = "none"
    /\ v.errmsg = <<>>
    /\ \A i \in 1..NumField(v) : IsExported(v, i) => ZeroValue(Field(v, i))

tEmptyRecord == Struct(<<F(nName, Str(<<>>)), F(nActive, Bool(FALSE))>>)

\* What a fully empty record does in a step, when it is formatted at a
\* depth of at most limit: it returns the empty string; and the record,
\* sequence or mapping that holds it - as a field, an element or a value,
\* behind references or not - is done with it having appended nothing.
EmptyRecordUpTo(limit) ==
    /\ (TopReturns /\ Top.fn = "formatStruct" /\ FullyEmpty(Top.v)
          /\ Top.depth <= limit)
         => ret' = <<>>
    /\ \A k \in 1..Len(stack) :
         /\ (/\ FieldDone(k)
             /\ FullyEmpty(DerefAll(Field(stack[k].v, stack[k].i)))
             /\ stack[k].depth + 1 <= limit)
              => stack'[k].sb = stack[k].sb
         /\ (/\ Moves(k, "formatSlice", "item", "items")
             /\ FullyEmpty(DerefAll(Index(stack[k].v, stack[k].i)))
             /\ stack[k].depth + 1 <= limit)
              => (stack'[k].sb = stack[k].sb /\ stack'[k].i = stack[k].i + 1)
         /\ (/\ Moves(k, "formatSlice", "primitive", "primitives")
             /\ FullyEmpty(DerefAll(Index(stack[k].v, stack[k].i)))
             /\ stack[k].depth <= limit)
              => stack'[k].items = stack[k].items
         /\ (/\ Moves(k, "formatMap", "value", "range")
             /\ FullyEmpty(DerefAll(MapValue(stack[k].v, stack[k].cur)))
             /\ stack[k].depth + 1 <= limit)
              => stack'[k].sb = stack[k].sb

\* C25 as stated: a record whose exported fields are all zero / empty
\* renders as the empty string and is omitted from its parent's output (no
\* label line, no index line), at whatever depth it occurs.
EmptyRecordOmittedAnywhere == [][EmptyRecordUpTo(maxLLMDepth + 1)]_vars

\* C25 amended: a record whose exported fields are all zero / empty and that
\* occurs at a depth of at most maxDepth renders as the empty string and is
\* omitted from its parent's output (no label line, no index line).
EmptyRecordOmitted == [][EmptyRecordUpTo(maxLLMDepth)]_vars

\* a record whose first field is a fully empty record has been printed: the
\* second field's line is all there is
EmptyRecordOmittedWitness ==
    /\ Done
    /\ root = Struct(<<F(nName, tEmptyRecord), F(nFieldName, Str(tB))>>)
    /\ ret = fieldNameToLabel(nFieldName) \o <<":", SP>> \o tB \o <<NL>>

\* ---------------------------------------------------- reference transparency

tPointee == Struct(<<F(nValue, Str(tA)), F(nActive, Bool(TRUE))>>)
tPointeeRendered ==
    fieldNameToLabel(nValue) \o <<":", SP>> \o tA \o <<NL>>
    \o fieldNameToLabel(nActive) \o <<":", SP>> \o tTrue \o <<NL>>

\* C26 Reference transparency: a call of formatValue on a nil pointer or
\* interface returns the empty string; on one that is not nil it goes on
\* exactly as the call on the value referred to, at the same depth, layer
\* after layer; a record deciding whether to omit a field omits a nil
\* reference and otherwise decides on the value referred to; so a pointer to
\* a record prints as the record does, and a nil pointer prints nothing.
ReferenceTransparency ==
    /\ [][/\ (At("formatValue", "entry") /\ IsRef(Top.v))
             => IF IsNil(Top.v)
                THEN TopReturns /\ ret' = <<>>
                ELSE stack' = [stack EXCEPT ![Len(stack)] =
                                  NewFrame("formatValue", Elem(Top.v), Top.depth)]
          /\ (At("formatStruct", "skip") /\ IsRef(Top.w))
             => IF IsNil(Top.w)
                THEN FieldDone(Len(stack)) /\ stack'[Len(stack)].sb = Top.sb
                ELSE stack' = [stack EXCEPT ![Len(stack)] =
                                  [Top EXCEPT !.w = Elem(Top.w)]]]_vars
    /\ [](Done => /\ root = Ptr(tPointee) => ret = tPointeeRendered
                  /\ root = Ptr(Ptr(Bool(TRUE))) => ret = tTrue
                  /\ root \in {NilPtr, NilIface} => ret = <<>>)

\* a true boolean behind two pointers has been printed as "true"
ReferenceTransparencyWitness ==
    /\ Done
    /\ root = Ptr(Ptr(Bool(TRUE)))
    /\ ret = tTrue
    /\ written = <<tTrue>>

\* ------------------------------------------------ index-prefixed sequences

tThreeRecords ==
    Slice(<<Struct(<<F(nValue, Str(tA))>>), Struct(<<>>), Struct(<<F(nValue, Str(tB))>>)>>)
tThreeRecordsRendered ==
    <<"[", "0", "]", NL, SP, SP>> \o fieldNameToLabel(nValue) \o <<":", SP>> \o tA \o <<NL>>
    \o <<"[", "2", "]", NL, SP, SP>> \o fieldNameToLabel(nValue) \o <<":", SP>> \o tB \o <<NL>>

\* What a sequence whose first element is a record or a container does in
\* a step, when it is formatted at a depth of at most limit: it formats its
\* elements one after the other, each at depth + 1; done with the element at
\* (0-based) position i whose rendering r has come back, it has appended
\* nothing when r is empty and the line `[i]` (after 2*depth spaces) followed
\* by r otherwise; and it returns what it has appended once every element
\* has had its turn.
IndexPrefixedUpTo(limit) ==
    /\ (At("formatSlice", "items") /\ Top.i <= VLen(Top.v) /\ Len(stack) < MaxStack)
         => stack' = Append([stack EXCEPT ![Len(stack)] = [Top EXCEPT !.pc = "item"]],
                            NewFrame("formatValue", Index(Top.v, Top.i), Top.depth + 1))
    /\ \A k \in 1..Len(stack) :
         Moves(k, "formatSlice", "item", "items")
           => /\ stack'[k].i = stack[k].i + 1
              /\ stack'[k].sb =
                   stack[k].sb \o
                     (IF ret = <<>> THEN <<>>
                      ELSE Spaces(2 * stack[k].depth) \o <<"[">>
                             \o Itoa(stack[k].i - 1) \o <<"]", NL>> \o ret)
    /\ (SliceReturns /\ VLen(Top.v) > 0 /\ ~FirstIsScalar(Top.v) /\ Top.depth <= limit)
         => /\ Top.pc = "items"
            /\ Top.i = VLen(Top.v) + 1
            /\ ret' = Top.sb

\* C27 as stated: in a sequence whose first element is a record or a
\* container each element is rendered at depth + 1 and, iff its rendering is
\* not empty, preceded by the index line `[i]` of its original zero-based
\* position, in sequence order - at whatever depth the sequence is.
IndexPrefixedAnywhere == [][IndexPrefixedUpTo(maxLLMDepth + 1)]_vars

\* C27 amended: the same for a sequence formatted at a depth of at most
\* maxDepth; elements rendering empty print no index line and leave the
\* numbers of the later ones as they are.
IndexPrefixed ==
    /\ [][IndexPrefixedUpTo(maxLLMDepth)]_vars
    /\ []((Done /\ root = tThreeRecords) => ret = tThreeRecordsRendered)

\* three records, the second one empty, have been printed as [0] and [2]
IndexPrefixedWitness ==
    /\ Done
    /\ root = tThreeRecords
    /\ written = <<tThreeRecordsRendered>>

\* ---------------------------------------------------------- mapping entries

\* a value that renders empty wherever it is: a nil reference, or a zero
\* scalar, timestamp, duration or empty sequence or mapping behind any
\* number of references
RendersEmpty(v) ==
    LET d == DerefAll(v) IN d = NilData \/ ZeroValue(d)

tTwoEntries ==
    Map(<<E(Str(tKey1), Bool(TRUE)), E(Str(tKey2), Struct(<<F(nValue, Str(tB))>>))>>)
tFirstEntry == tKey1 \o <<":", SP>> \o tTrue \o <<NL>>
tSecondEntry ==
    tKey2 \o <<":", NL, SP, SP>> \o fieldNameToLabel(nValue) \o <<":", SP>> \o tB \o <<NL>>

\* What a mapping does in a step, when it is formatted at depth d of at most
\* limit: it takes an entry not yet visited and formats its key at depth d,
\* then its value at depth d + 1; done with an entry whose value's rendering
\* r has come back, it has appended nothing when r is empty, the line
\* `KEY: r` when r has no line break and the line `KEY:` followed by r
\* otherwise (KEY after 2*d spaces); it returns the empty string when it
\* has no entry, and otherwise what it has appended once every entry has
\* been visited - the empty string when every value renders empty.
MappingUpTo(limit) ==
    /\ (At("formatMap", "range") /\ Top.todo # {} /\ Len(stack) < MaxStack)
         => \E e \in Top.todo :
              stack' = Append([stack EXCEPT ![Len(stack)] =
                                  [Top EXCEPT !.pc = "key", !.cur = e, !.todo = @ \ {e}]],
                              NewFrame("formatValue", MapKey(Top.v, e), Top.depth))
    /\ (At("formatMap", "key") /\ Len(stack) < MaxStack)
         => stack' = Append([stack EXCEPT ![Len(stack)] =
                                [Top EXCEPT !.pc = "value", !.keyStr = ret]],
                            NewFrame("formatValue", MapValue(Top.v, Top.cur),
                                     Top.depth + 1))
    /\ \A k \in 1..Len(stack) :
         Moves(k, "formatMap", "value", "range")
           => LET f == stack[k]
                  key == Spaces(2 * f.depth) \o f.keyStr
              IN stack'[k].sb =
                   f.sb \o (IF ret = <<>> THEN <<>>
                            ELSE IF HasLineBreak(ret) THEN key \o <<":", NL>> \o ret
                            ELSE key \o <<":", SP>> \o ret \o <<NL>>)
    /\ (TopReturns /\ Top.fn = "formatMap" /\ Top.depth <= limit)
         => /\ VLen(Top.v) = 0 => ret' = <<>>
            /\ VLen(Top.v) > 0 => (Top.pc = "range" /\ Top.todo = {} /\ ret' = Top.sb)
            /\ (\A e \in 1..VLen(Top.v) : RendersEmpty(MapValue(Top.v, e)))
                 => ret' = <<>>

\* C28 as stated: for a mapping at depth d the key is rendered at depth d
\* and the value at depth d + 1; an entry gives output iff its value's
\* rendering is not empty, as one line `KEY: value` or as `KEY:` followed by
\* the nested block; an empty mapping, or one whose values all render empty,
\* renders as the empty string - at whatever depth the mapping is.
MappingEntriesAnywhere == [][MappingUpTo(maxLLMDepth + 1)]_vars

\* C28 amended: the same for a mapping formatted at a depth of at most
\* maxDepth.
MappingEntries ==
    /\ [][MappingUpTo(maxLLMDepth)]_vars
    /\ []((Done /\ root = tTwoEntries)
            => ret \in {tFirstEntry \o tSecondEntry, tSecondEntry \o tFirstEntry})

\* a mapping of two entries has been printed, one entry on one line and the
\* other as a nested block
MappingEntriesWitness ==
    /\ Done
    /\ root = tTwoEntries
    /\ written = <<tFirstEntry \o tSecondEntry>>

\* ------------------------------------------------------- writes to a writer

\* goroutine p is inside fmt.Fprintf, writing to the io.Writer WriterOf(p)
Writing(p) == procs[p].pc = "writing"
WriterOf(p) == loggers[procs[p].l].out

\* C29 Log writes to one writer are mutually exclusive: whatever calls two
\* goroutines make on a logger and on the loggers derived from it with
\* WithContext, no two of them are inside the write to the same io.Writer at
\* the same time.
WritesAreExclusive ==
    \A p, q \in DOMAIN procs :
        (p # q /\ Writing(p) /\ Writing(q)) => WriterOf(p) # WriterOf(q)

\* the same for the calls made on one and the same logger
WritesOfOneLoggerAreExclusive ==
    \A p, q \in DOMAIN procs :
        (p # q /\ Writing(p) /\ Writing(q)) => procs[p].l # procs[q].l

\* the call has returned, with what fn wrote to each stream it redirects and
\* with os.Stdout and os.Stderr as they were before it
CaptureReturned == capture.fn # "none" /\ capture.pc = "returned"

YieldsAll ==
    \A s \in StreamNames :
        Redirects(capture.fn, s) => capture.result[s] = capture.wrote[s]

StreamsRestored == os = capture.old

CaptureYieldsAndRestores ==
    CaptureReturned => YieldsAll /\ StreamsRestored

\* C30 Capture, CaptureStdout and CaptureStderr return for every fn that
\* itself returns, whatever amount fn writes; what they return is everything
\* fn wrote to the streams they redirect; and when they return os.Stdout and
\* os.Stderr are the files they were before the call.
CaptureAlwaysReturns ==
    (<>CaptureReturned) /\ [](CaptureReturned => YieldsAll /\ StreamsRestored)

====
